---------------------------- MODULE Spec2Model ----------------------------
(***************************************************************************)
(* NanoCBOR decoder: the cursor (nanocbor_value_t) over a byte buffer, the *)
(* getters, container entry and exit, the bounded skip engine and the      *)
(* packed-CBOR resolution layer of src/src/decoder.c.                      *)
(*                                                                         *)
(* Pointers are offsets into the input buffer buf (offset 0 is the first   *)
(* byte).  64-bit unsigned quantities are tuples of four 16-bit limbs,     *)
(* most significant first, so that wrap-around and the comparisons of the  *)
(* C code keep their width.                                                *)
(***************************************************************************)
EXTENDS Integers, Sequences, FiniteSets, TLC

(***************************************************************************)
(* Constants of include/nanocbor/nanocbor.h                                *)
(***************************************************************************)
NANOCBOR_TYPE_UINT == 0
NANOCBOR_TYPE_NINT == 1
NANOCBOR_TYPE_BSTR == 2
NANOCBOR_TYPE_TSTR == 3
NANOCBOR_TYPE_ARR == 4
NANOCBOR_TYPE_MAP == 5
NANOCBOR_TYPE_TAG == 6
NANOCBOR_TYPE_FLOAT == 7

NANOCBOR_SIMPLE_FALSE == 20
NANOCBOR_SIMPLE_TRUE == 21
NANOCBOR_SIMPLE_NULL == 22
NANOCBOR_SIMPLE_UNDEF == 23

NANOCBOR_SIZE_BYTE == 24
NANOCBOR_SIZE_SHORT == 25
NANOCBOR_SIZE_WORD == 26
NANOCBOR_SIZE_LONG == 27
NANOCBOR_SIZE_INDEFINITE == 31

NANOCBOR_TAG_DEC_FRAC == 4

NANOCBOR_OK == 0
NANOCBOR_ERR_OVERFLOW == -1
NANOCBOR_ERR_INVALID_TYPE == -2
NANOCBOR_ERR_END == -3
NANOCBOR_ERR_RECURSION == -4
NANOCBOR_NOT_FOUND == -5

(***************************************************************************)
(* Constants the decoder uses from the packed-CBOR revision of the header  *)
(* and from nanocbor/config.h.                                             *)
(***************************************************************************)
NANOCBOR_ERR_PACKED_FORMAT == -6
NANOCBOR_ERR_PACKED_MEMORY == -7
NANOCBOR_ERR_PACKED_UNDEFINED_REFERENCE == -8

NANOCBOR_TAG_PACKED_TABLE == 113
NANOCBOR_TAG_PACKED_REF_SHARED == 6

NANOCBOR_RECURSION_MAX == 8
NANOCBOR_DECODE_PACKED_NESTED_TABLES_MAX == 3
NANOCBOR_SIZE_SIZET == 27

FLAG_CONTAINER == "CONTAINER"
FLAG_INDEFINITE == "INDEFINITE"
FLAG_PACKED_SUPPORT == "PACKED_SUPPORT"
FLAG_SHARED == "SHARED"

(***************************************************************************)
(* uint64_t arithmetic on four 16-bit limbs <<l3, l2, l1, l0>>             *)
(***************************************************************************)
Limb == 65536

Zero64 == <<0, 0, 0, 0>>

UINT64_MAX == <<65535, 65535, 65535, 65535>>

UINT64_MAX_HALF == <<32767, 65535, 65535, 65535>>

INT64_MAX == UINT64_MAX_HALF

UINT32_MAX == <<0, 0, 65535, 65535>>

UINT16_MAX == <<0, 0, 0, 65535>>

UINT8_MAX == <<0, 0, 0, 255>>

\* a value 0 <= n < 2^31 as uint64_t
U64(n) == <<0, 0, n \div Limb, n % Limb>>

U64Lt(a, b) ==
    \/ a[1] < b[1]
    \/ a[1] = b[1] /\ a[2] < b[2]
    \/ a[1] = b[1] /\ a[2] = b[2] /\ a[3] < b[3]
    \/ a[1] = b[1] /\ a[2] = b[2] /\ a[3] = b[3] /\ a[4] < b[4]

U64Gt(a, b) == U64Lt(b, a)

\* a + b modulo 2^64
U64Add(a, b) ==
    LET s0 == a[4] + b[4]
        s1 == a[3] + b[3] + (s0 \div Limb)
        s2 == a[2] + b[2] + (s1 \div Limb)
        s3 == a[1] + b[1] + (s2 \div Limb)
    IN  <<s3 % Limb, s2 % Limb, s1 % Limb, s0 % Limb>>

\* a - 1 modulo 2^64
U64Dec(a) == U64Add(a, UINT64_MAX)

\* the value fits a non-negative 31-bit integer of the model
U64Small(a) == a[1] = 0 /\ a[2] = 0 /\ a[3] < 32768

U64ToNat(a) == a[3] * Limb + a[4]

\* (uint32_t)a, (uint16_t)a and (uint8_t)a
U64ToU32(a) == <<0, 0, a[3], a[4]>>

U64ToU16(a) == <<0, 0, 0, a[4]>>

U64ToU8(a) == <<0, 0, 0, a[4] % 256>>

\* the big-endian value of a sequence of at most 8 bytes
RECURSIVE BytesToU64(_)
BytesToU64(bs) ==
    IF Len(bs) = 0 THEN Zero64
    ELSE LET hi == BytesToU64(SubSeq(bs, 1, Len(bs) - 1))
             b == bs[Len(bs)]
             \* hi * 256 + b on limbs
             l0 == (hi[4] % 256) * 256 + b
             l1 == (hi[3] % 256) * 256 + (hi[4] \div 256)
             l2 == (hi[2] % 256) * 256 + (hi[3] \div 256)
             l3 == (hi[1] % 256) * 256 + (hi[2] \div 256)
         IN  <<l3, l2, l1, l0>>

VARIABLES
    buf,    \* the input bytes the cursors borrow
    stack,  \* stack[1] is the top-level cursor, stack[k+1] was entered from stack[k]
    prev,   \* the cursor stack before the last call
    last,   \* the last call: its name, return value and outputs
    hung,   \* the last call never returned
    encs    \* the encoders, one for each length of the output buffer

vars == <<buf, stack, prev, last, hung, encs>>

(***************************************************************************)
(* Cursor helpers                                                          *)
(***************************************************************************)
\* *p for a pointer p into the buffer
Byte(p) == buf[p + 1]

\* nanocbor_decoder_init; remaining is left uninitialised by the code
nanocbor_decoder_init(len, garbage) ==
    [cur |-> 0, end |-> len, remaining |-> garbage, flags |-> {},
     tables |-> <<>>]

_advance(cvalue, res) ==
    [cvalue EXCEPT !.cur = @ + res, !.remaining = U64Dec(@)]

_over_end(it) == it.cur >= it.end

nanocbor_container_indefinite(container) ==
    container.flags = {FLAG_INDEFINITE, FLAG_CONTAINER}

nanocbor_in_container(container) == FLAG_CONTAINER \in container.flags

nanocbor_at_end(it) ==
    \/ _over_end(it)
    \/ nanocbor_container_indefinite(it) /\ Byte(it.cur) = 255
    \/ /\ ~nanocbor_container_indefinite(it)
       /\ nanocbor_in_container(it)
       /\ it.remaining = Zero64

__get_type(value) ==
    IF nanocbor_at_end(value) THEN NANOCBOR_ERR_END
    ELSE Byte(value.cur) \div 32

\* the bytes [p, p+n) of the buffer
Bytes(p, n) == [i \in 1..n |-> Byte(p + i - 1)]

Pow2(n) == IF n = 0 THEN 1 ELSE IF n = 1 THEN 2 ELSE IF n = 2 THEN 4 ELSE 8

\* _get_uint64: res is the head length or a negative error; value is left
\* at the caller's initial 0 when the call fails
_get_uint64(cvalue, max, type) ==
    LET ctype == __get_type(cvalue) IN
    IF ctype < 0 THEN [res |-> ctype, value |-> Zero64]
    ELSE IF type # ctype THEN [res |-> NANOCBOR_ERR_INVALID_TYPE, value |-> Zero64]
    ELSE LET bytelen == Byte(cvalue.cur) % 32 IN
         IF bytelen < NANOCBOR_SIZE_BYTE THEN [res |-> 1, value |-> U64(bytelen)]
         ELSE IF bytelen > max THEN [res |-> NANOCBOR_ERR_OVERFLOW, value |-> Zero64]
         ELSE LET bytes == Pow2(bytelen - NANOCBOR_SIZE_BYTE) IN
              IF cvalue.cur + bytes >= cvalue.end
              THEN [res |-> NANOCBOR_ERR_END, value |-> Zero64]
              ELSE [res |-> 1 + bytes,
                    value |-> BytesToU64(Bytes(cvalue.cur + 1, bytes))]


(***************************************************************************)
(* Results of the internal functions: the return value, the cursor the     *)
(* function was given as it leaves it, and whether the call never returns  *)
(* (the element loop of _skip_limited spins).                              *)
(***************************************************************************)
Ret(res, it) == [res |-> res, it |-> it, hang |-> FALSE]

Spin(it) == [res |-> NANOCBOR_OK, it |-> it, hang |-> TRUE]

\* a decoder that treats every cursor as packed
_packed_enabled_always(value) == TRUE

_packed_enabled(value) == FLAG_PACKED_SUPPORT \in value.flags

\* the value of a local that is computed once and read several times:
\* Only({e : x \in {v}}) is e with x standing for v
Only(S) == CHOOSE x \in S : TRUE

\* __enter_container; container0 is *container as the caller initialised it
__enter_container(it, container0, type) ==
    LET c0 == [container0 EXCEPT !.end = it.end, !.remaining = Zero64]
        value_match == type * 32 + NANOCBOR_SIZE_INDEFINITE
    IN  IF ~_over_end(it) /\ Byte(it.cur) = value_match
        THEN Ret(NANOCBOR_OK,
                 [c0 EXCEPT !.flags = @ \cup {FLAG_INDEFINITE, FLAG_CONTAINER},
                            !.cur = it.cur + 1])
        ELSE Only({ IF g.res < 0 THEN Ret(g.res, c0)
                    ELSE Ret(NANOCBOR_OK,
                             [c0 EXCEPT !.remaining = g.value,
                                        !.flags = @ \cup {FLAG_CONTAINER},
                                        !.cur = it.cur + g.res]) :
                    g \in {_get_uint64(it, NANOCBOR_SIZE_LONG, type)} })

\* _enter_array_unpacked(it, array): array0 is *array before the call
_enter_array_unpacked(it, array0) ==
    IF _packed_enabled(it)
    THEN __enter_container(it,
             [array0 EXCEPT !.tables = it.tables, !.flags = {FLAG_PACKED_SUPPORT}],
             NANOCBOR_TYPE_ARR)
    ELSE __enter_container(it, [array0 EXCEPT !.flags = {}], NANOCBOR_TYPE_ARR)

nanocbor_decoder_init_packed(start, len, garbage) ==
    [cur |-> start, end |-> start + len, remaining |-> garbage,
     flags |-> {FLAG_PACKED_SUPPORT}, tables |-> <<>>]

\* _skip_limited and _packed_handle call each other through most of the
\* decoder; call names the callee and passes its arguments, the code of the
\* two functions is _skip_limited_code and _packed_handle_code below
RECURSIVE call(_, _)

_skip_limited(it, limit) == call("_skip_limited", <<it, limit>>)

_packed_handle(cvalue, limit) == call("_packed_handle", <<cvalue, limit>>)

\* _packed_add_array_as_table without the test of the number of active tables
_packed_add_array_as_table_unbounded(cvalue, limit) ==
    IF limit = 0 THEN Ret(NANOCBOR_ERR_RECURSION, cvalue)
    ELSE
    Only({
        IF h.hang THEN Spin(cvalue)
        ELSE IF h.res # NANOCBOR_OK /\ h.res # NANOCBOR_NOT_FOUND
        THEN Ret(h.res, cvalue)
        ELSE
        LET followed == h.it
            cv1 == IF h.res = NANOCBOR_OK
                   THEN [cvalue EXCEPT !.tables = h.it.tables] ELSE cvalue
        IN
        Only({
            IF s.hang THEN Spin(s.it)
            ELSE IF s.res # NANOCBOR_OK THEN Ret(s.res, s.it)
            ELSE IF __get_type(followed) # NANOCBOR_TYPE_ARR
            THEN Ret(NANOCBOR_ERR_PACKED_FORMAT, s.it)
            ELSE
            Only({
                IF f.hang THEN Spin(s.it)
                ELSE IF f.res # NANOCBOR_OK THEN Ret(f.res, s.it)
                ELSE Ret(NANOCBOR_OK,
                         [s.it EXCEPT !.tables =
                             Append(@, [start |-> followed.cur,
                                        len |-> f.it.cur - followed.cur])]) :
                f \in {_skip_limited(followed, limit - 1)} }) :
            s \in {_skip_limited(cv1, limit - 1)} }) :
        h \in {_packed_handle(cvalue, limit - 1)} })

\* _packed_add_array_as_table
_packed_add_array_as_table(cvalue, limit) ==
    IF limit = 0 THEN Ret(NANOCBOR_ERR_RECURSION, cvalue)
    ELSE
    Only({
        IF h.hang THEN Spin(cvalue)
        ELSE IF h.res # NANOCBOR_OK /\ h.res # NANOCBOR_NOT_FOUND
        THEN Ret(h.res, cvalue)
        ELSE
        LET followed == h.it
            cv1 == IF h.res = NANOCBOR_OK
                   THEN [cvalue EXCEPT !.tables = h.it.tables] ELSE cvalue
        IN
        Only({
            IF s.hang THEN Spin(s.it)
            ELSE IF s.res # NANOCBOR_OK THEN Ret(s.res, s.it)
            ELSE IF Len(s.it.tables) >= NANOCBOR_DECODE_PACKED_NESTED_TABLES_MAX
            THEN Ret(NANOCBOR_ERR_PACKED_MEMORY, s.it)
            ELSE IF __get_type(followed) # NANOCBOR_TYPE_ARR
            THEN Ret(NANOCBOR_ERR_PACKED_FORMAT, s.it)
            ELSE
            Only({
                IF f.hang THEN Spin(s.it)
                ELSE IF f.res # NANOCBOR_OK THEN Ret(f.res, s.it)
                ELSE Ret(NANOCBOR_OK,
                         [s.it EXCEPT !.tables =
                             Append(@, [start |-> followed.cur,
                                        len |-> f.it.cur - followed.cur])]) :
                f \in {_skip_limited(followed, limit - 1)} }) :
            s \in {_skip_limited(cv1, limit - 1)} }) :
        h \in {_packed_handle(cvalue, limit - 1)} })

\* _packed_consume_table_definition_113
_packed_consume_table_definition_113(cvalue, limit) ==
    Only({
        IF h.hang THEN Spin(h.it)
        ELSE IF h.res # NANOCBOR_OK /\ h.res # NANOCBOR_NOT_FOUND
        THEN Ret(h.res, h.it)
        ELSE
        \* arr is an uninitialised local: every field read later is written
        \* first
        Only({
            IF e.res # NANOCBOR_OK THEN Ret(NANOCBOR_ERR_PACKED_FORMAT, h.it)
            ELSE
            Only({
                IF a.hang THEN Spin(h.it)
                ELSE IF a.res # NANOCBOR_OK THEN Ret(a.res, h.it)
                ELSE
                LET cv2 == [h.it EXCEPT !.tables = a.it.tables, !.cur = a.it.cur]
                IN
                Only({
                    IF s.hang THEN Spin(cv2)
                    ELSE IF s.res # NANOCBOR_OK THEN Ret(s.res, cv2)
                    ELSE IF ~nanocbor_at_end(s.it)
                    THEN Ret(NANOCBOR_ERR_PACKED_FORMAT, cv2)
                    ELSE Ret(NANOCBOR_OK, [cv2 EXCEPT !.end = s.it.cur]) :
                    s \in {_skip_limited(a.it, limit - 1)} }) :
                a \in {_packed_add_array_as_table(e.it, limit - 1)} }) :
            e \in {_enter_array_unpacked(h.it, h.it)} }) :
        h \in {_packed_handle(cvalue, limit - 1)} })

\* while (j < idx && !nanocbor_at_end(cvalue)) { _skip_limited; j++ }
\* res < 0 ends the walk with that error; a skip that returns OK without
\* moving the cursor repeats identically until j reaches idx
RECURSIVE _follow_walk(_, _, _, _)
_follow_walk(cvalue, j, idx, limit) ==
    IF ~(U64Lt(j, idx) /\ ~nanocbor_at_end(cvalue))
    THEN [res |-> NANOCBOR_OK, it |-> cvalue, hang |-> FALSE, j |-> j]
    ELSE Only({
             IF s.hang THEN [res |-> NANOCBOR_OK, it |-> s.it, hang |-> TRUE, j |-> j]
             ELSE IF s.res < 0
             THEN [res |-> s.res, it |-> s.it, hang |-> FALSE, j |-> j]
             ELSE IF s.it = cvalue
             THEN [res |-> NANOCBOR_OK, it |-> cvalue, hang |-> FALSE, j |-> idx]
             ELSE _follow_walk(s.it, U64Add(j, U64(1)), idx, limit) :
             s \in {_skip_limited(cvalue, limit)} })

\* a - b modulo 2^64, for b <= UINT32_MAX
U64Sub(a, b) ==
    LET nb == U64Add(<<65535 - b[1], 65535 - b[2], 65535 - b[3], 65535 - b[4]>>,
                     U64(1))
    IN  U64Add(a, nb)

\* _packed_follow_reference; i counts the tables from the newest one
RECURSIVE _follow_tables(_, _, _, _, _)
_follow_tables(cvalue, i, num, idx, limit) ==
    IF i >= num THEN Ret(NANOCBOR_ERR_PACKED_UNDEFINED_REFERENCE, cvalue)
    ELSE
    LET t == cvalue.tables[num - i]
        table == [nanocbor_decoder_init_packed(t.start, t.len, cvalue.remaining)
                     EXCEPT !.tables = cvalue.tables]
    IN
    Only({
        IF e.res < 0
        THEN Ret(IF e.res = NANOCBOR_ERR_RECURSION THEN e.res
                 ELSE NANOCBOR_ERR_PACKED_FORMAT, e.it)
        ELSE
        LET table_size == IF nanocbor_container_indefinite(e.it) THEN UINT32_MAX
                          ELSE U64ToU32(e.it.remaining)
        IN  IF U64Lt(idx, table_size)
            THEN Only({
                     IF w.hang THEN Spin(w.it)
                     ELSE IF w.res < 0 THEN Ret(w.res, w.it)
                     ELSE IF nanocbor_at_end(w.it)
                     THEN _follow_tables(w.it, i + 1, num,
                                         U64Sub(idx, U64ToU32(w.j)), limit)
                     ELSE Ret(NANOCBOR_OK,
                              [w.it EXCEPT !.tables = SubSeq(@, 1, num - i)]) :
                     w \in {_follow_walk(e.it, Zero64, idx, limit)} })
            ELSE _follow_tables(e.it, i + 1, num, U64Sub(idx, table_size), limit) :
        e \in {_enter_array_unpacked(table, cvalue)} })

\* _packed_follow_reference without the assignment to num_active_tables
_packed_follow_reference_all_tables(cvalue, idx, limit) ==
    Only({ [r EXCEPT !.it.tables = cvalue.tables] :
           r \in {_follow_tables(cvalue, 0, Len(cvalue.tables), idx, limit)} })

_packed_follow_reference(cvalue, idx, limit) ==
    _follow_tables(cvalue, 0, Len(cvalue.tables), idx, limit)

\* the tail of _packed_handle: recursively unpack on success
_packed_handle_tail(r, limit) ==
    IF r.hang THEN r
    ELSE IF r.res = NANOCBOR_OK
    THEN Only({ IF h.hang THEN h
                ELSE Ret(IF h.res < 0 /\ h.res # NANOCBOR_NOT_FOUND THEN h.res
                         ELSE NANOCBOR_OK, h.it) :
                h \in {_packed_handle(r.it, limit - 1)} })
    ELSE r

_packed_handle_code(cvalue, limit) ==
    IF ~_packed_enabled(cvalue) THEN Ret(NANOCBOR_NOT_FOUND, cvalue)
    ELSE IF limit = 0 THEN Ret(NANOCBOR_ERR_RECURSION, cvalue)
    ELSE
    LET ctype == __get_type(cvalue) IN
    IF ctype = NANOCBOR_TYPE_TAG
    THEN Only({
         LET cv1 == [cvalue EXCEPT !.cur = @ + g.res] IN
         IF g.res < 0 THEN Ret(NANOCBOR_NOT_FOUND, cvalue)
         ELSE IF g.value = U64(NANOCBOR_TAG_PACKED_TABLE)
         THEN _packed_handle_tail(
                  _packed_consume_table_definition_113(cv1, limit), limit)
         ELSE IF g.value = U64(NANOCBOR_TAG_PACKED_REF_SHARED)
         THEN Only({
              IF h.hang THEN h
              ELSE IF h.res # NANOCBOR_OK /\ h.res # NANOCBOR_NOT_FOUND
              THEN Ret(h.res, h.it)
              ELSE
              LET ctype2 == __get_type(h.it) IN
              IF ctype2 # NANOCBOR_TYPE_NINT /\ ctype2 # NANOCBOR_TYPE_UINT
              THEN Ret(NANOCBOR_ERR_PACKED_FORMAT, h.it)
              ELSE
              Only({
                  IF n.res <= 0 THEN Ret(NANOCBOR_ERR_PACKED_FORMAT, h.it)
                  ELSE
                  LET cv2 == _advance(h.it, n.res)
                      idx == U64Add(U64Add(U64(16), U64Add(n.value, n.value)),
                                    IF ctype2 = NANOCBOR_TYPE_NINT THEN U64(1)
                                    ELSE Zero64)
                  IN  _packed_handle_tail(
                          _packed_follow_reference(cv2, idx, limit), limit) :
                  n \in {_get_uint64(h.it, NANOCBOR_SIZE_LONG, ctype2)} }) :
              h \in {_packed_handle(cv1, limit - 1)} })
         ELSE Ret(NANOCBOR_NOT_FOUND, cvalue) :
         g \in {_get_uint64(cvalue, NANOCBOR_SIZE_WORD, ctype)} })
    ELSE IF ctype = NANOCBOR_TYPE_FLOAT
    THEN LET simple == Byte(cvalue.cur) % 32 IN
         IF simple < 16
         THEN _packed_handle_tail(
                  _packed_follow_reference(_advance(cvalue, 1), U64(simple), limit),
                  limit)
         ELSE Ret(NANOCBOR_NOT_FOUND, cvalue)
    ELSE Ret(NANOCBOR_NOT_FOUND, cvalue)


(***************************************************************************)
(* The macros __PACKED_HANDLE, _PACKED_HANDLE_BEGIN and _PACKED_HANDLE_END *)
(***************************************************************************)
\* __PACKED_HANDLE on a copy of cvalue: packed is TRUE when the copy took
\* over (res = OK), err is the code the enclosing function returns at once
__PACKED_HANDLE(cvalue) ==
    Only({ [packed |-> ~h.hang /\ h.res = NANOCBOR_OK,
            failed |-> ~h.hang /\ h.res # NANOCBOR_OK /\ h.res # NANOCBOR_NOT_FOUND,
            res |-> h.res,
            hang |-> h.hang,
            it |-> IF ~h.hang /\ h.res = NANOCBOR_OK THEN h.it ELSE cvalue] :
           h \in {_packed_handle(cvalue, NANOCBOR_RECURSION_MAX - 1)} })

\* _PACKED_HANDLE_END: body is the result of the code between the macros,
\* run on b.it; outer is the caller's cursor
_PACKED_HANDLE_END(b, outer, body) ==
    IF b.packed
    THEN IF body.res >= NANOCBOR_OK
         THEN Only({ [body EXCEPT !.res = IF s.res # NANOCBOR_OK THEN s.res ELSE @,
                                  !.it = s.it, !.hang = s.hang] :
                     s \in {_skip_limited(outer, NANOCBOR_RECURSION_MAX - 1)} })
         ELSE [body EXCEPT !.it = outer]
    ELSE body

\* a function of the shape _PACKED_HANDLE_BEGIN; body; _PACKED_HANDLE_END
\* b is the outcome of __PACKED_HANDLE(cvalue), body the code between the
\* macros run on b.it
_PACKED(cvalue, b, body) ==
    IF b.hang THEN [res |-> NANOCBOR_OK, it |-> cvalue, hang |-> TRUE, out |-> Zero64]
    ELSE IF b.failed
    THEN [res |-> b.res, it |-> cvalue, hang |-> FALSE, out |-> Zero64]
    ELSE _PACKED_HANDLE_END(b, cvalue, body)

_advance_if(cvalue, res) == IF res > 0 THEN _advance(cvalue, res) ELSE cvalue

_value_match_exact(cvalue, val) ==
    IF _over_end(cvalue) THEN Ret(NANOCBOR_ERR_END, cvalue)
    ELSE IF Byte(cvalue.cur) = val THEN Ret(NANOCBOR_OK, _advance(cvalue, 1))
    ELSE Ret(NANOCBOR_ERR_INVALID_TYPE, cvalue)

(***************************************************************************)
(* Integer, tag, string and simple getters.  out is the output parameter.  *)
(***************************************************************************)
_get_and_advance_uint8_body(cvalue, type) ==
    Only({ [res |-> g.res, it |-> _advance_if(cvalue, g.res), hang |-> FALSE,
            out |-> U64ToU8(g.value)] :
           g \in {_get_uint64(cvalue, NANOCBOR_SIZE_BYTE, type)} })

_get_and_advance_uint8(cvalue, type) ==
    Only({ _PACKED(cvalue, b, _get_and_advance_uint8_body(b.it, type)) :
           b \in {__PACKED_HANDLE(cvalue)} })

nanocbor_get_uint8(cvalue) == _get_and_advance_uint8(cvalue, NANOCBOR_TYPE_UINT)

_get_and_advance_uint64_body(cvalue, max) ==
    Only({ [res |-> g.res, it |-> _advance_if(cvalue, g.res), hang |-> FALSE,
            out |-> g.value] :
           g \in {_get_uint64(cvalue, max, NANOCBOR_TYPE_UINT)} })

_get_and_advance_uint64(cvalue, max) ==
    Only({ _PACKED(cvalue, b, _get_and_advance_uint64_body(b.it, max)) :
           b \in {__PACKED_HANDLE(cvalue)} })

nanocbor_get_uint16(cvalue) ==
    LET r == _get_and_advance_uint64(cvalue, NANOCBOR_SIZE_SHORT) IN
    [r EXCEPT !.out = U64ToU16(@)]

nanocbor_get_uint32(cvalue) ==
    LET r == _get_and_advance_uint64(cvalue, NANOCBOR_SIZE_WORD) IN
    [r EXCEPT !.out = U64ToU32(@)]

nanocbor_get_uint64(cvalue) == _get_and_advance_uint64(cvalue, NANOCBOR_SIZE_LONG)

\* _get_and_advance_int64 without the comparison with bound
_get_and_advance_int64_body_unbounded(cvalue, max, bound) ==
    LET type == __get_type(cvalue) IN
    IF type < 0
    THEN [res |-> type, it |-> cvalue, hang |-> FALSE,
          out |-> [neg |-> FALSE, mag |-> Zero64]]
    ELSE IF type = NANOCBOR_TYPE_NINT \/ type = NANOCBOR_TYPE_UINT
    THEN Only({
             [res |-> g.res, it |-> _advance_if(cvalue, g.res), hang |-> FALSE,
              out |-> [neg |-> type = NANOCBOR_TYPE_NINT, mag |-> g.value]] :
             g \in {_get_uint64(cvalue, max, type)} })
    ELSE [res |-> NANOCBOR_ERR_INVALID_TYPE, it |-> cvalue, hang |-> FALSE,
          out |-> [neg |-> FALSE, mag |-> Zero64]]

\* the int64_t result as sign and magnitude: neg is TRUE for -(mag) - 1
_get_and_advance_int64_body(cvalue, max, bound) ==
    LET type == __get_type(cvalue) IN
    IF type < 0
    THEN [res |-> type, it |-> cvalue, hang |-> FALSE,
          out |-> [neg |-> FALSE, mag |-> Zero64]]
    ELSE IF type = NANOCBOR_TYPE_NINT \/ type = NANOCBOR_TYPE_UINT
    THEN Only({
             LET res == IF U64Gt(g.value, bound) THEN NANOCBOR_ERR_OVERFLOW
                        ELSE g.res
             IN  [res |-> res, it |-> _advance_if(cvalue, res), hang |-> FALSE,
                  out |-> [neg |-> type = NANOCBOR_TYPE_NINT, mag |-> g.value]] :
             g \in {_get_uint64(cvalue, max, type)} })
    ELSE [res |-> NANOCBOR_ERR_INVALID_TYPE, it |-> cvalue, hang |-> FALSE,
          out |-> [neg |-> FALSE, mag |-> Zero64]]

\* the early return on type < 0 leaves before _PACKED_HANDLE_END, which acts
\* only on res >= 0
\* and before *value is written: the callers' tmp keeps its initial 0
_get_and_advance_int64(cvalue, max, bound) ==
    Only({ IF b.hang \/ b.failed
           THEN [_PACKED(cvalue, b, b) EXCEPT
                     !.out = [neg |-> FALSE, mag |-> Zero64]]
           ELSE _PACKED(cvalue, b, _get_and_advance_int64_body(b.it, max, bound)) :
           b \in {__PACKED_HANDLE(cvalue)} })

INT8_MAX == U64(127)

INT16_MAX == U64(32767)

INT32_MAX == <<0, 0, 32767, 65535>>

\* the casts (int8_t)tmp, (int16_t)tmp and (int32_t)tmp: the low bits m of the
\* two's complement of tmp, read as a signed number
IntCast(tmp, m, imax, umax) ==
    IF U64Gt(m, imax) THEN [neg |-> ~tmp.neg, mag |-> U64Sub(umax, m)]
    ELSE [neg |-> tmp.neg, mag |-> m]

nanocbor_get_int8(cvalue) ==
    LET r == _get_and_advance_int64(cvalue, NANOCBOR_SIZE_BYTE, INT8_MAX) IN
    [r EXCEPT !.out = IntCast(@, U64ToU8(@.mag), INT8_MAX, UINT8_MAX)]

nanocbor_get_int16(cvalue) ==
    LET r == _get_and_advance_int64(cvalue, NANOCBOR_SIZE_SHORT, INT16_MAX) IN
    [r EXCEPT !.out = IntCast(@, U64ToU16(@.mag), INT16_MAX, UINT16_MAX)]

nanocbor_get_int32(cvalue) ==
    LET r == _get_and_advance_int64(cvalue, NANOCBOR_SIZE_WORD, INT32_MAX) IN
    [r EXCEPT !.out = IntCast(@, U64ToU32(@.mag), INT32_MAX, UINT32_MAX)]

nanocbor_get_int64(cvalue) ==
    _get_and_advance_int64(cvalue, NANOCBOR_SIZE_LONG, INT64_MAX)

nanocbor_get_tag_body(cvalue) ==
    Only({ [res |-> IF g.res >= 0 THEN NANOCBOR_OK ELSE g.res,
            it  |-> IF g.res >= 0 THEN [cvalue EXCEPT !.cur = @ + g.res] ELSE cvalue,
            hang |-> FALSE,
            out |-> U64ToU32(g.value)] :
           g \in {_get_uint64(cvalue, NANOCBOR_SIZE_WORD, NANOCBOR_TYPE_TAG)} })

nanocbor_get_tag(cvalue) ==
    Only({ _PACKED(cvalue, b, nanocbor_get_tag_body(b.it)) :
           b \in {__PACKED_HANDLE(cvalue)} })

\* out is the slice (buf, len) handed to the caller; len is a uint64
_get_str_body(cvalue, type) ==
    Only({
        LET len == g.value
            avail == cvalue.end - cvalue.cur
        IN  IF avail < 0 \/ ~U64Small(len) \/ avail < U64ToNat(len)
            THEN [res |-> NANOCBOR_ERR_END, it |-> cvalue, hang |-> FALSE,
                  out |-> [buf |-> 0, len |-> len, set |-> FALSE]]
            ELSE IF g.res >= 0
            THEN [res |-> NANOCBOR_OK,
                  it |-> _advance(cvalue, g.res + U64ToNat(len)),
                  hang |-> FALSE,
                  out |-> [buf |-> cvalue.cur + g.res, len |-> len, set |-> TRUE]]
            ELSE [res |-> g.res, it |-> cvalue, hang |-> FALSE,
                  out |-> [buf |-> 0, len |-> len, set |-> FALSE]] :
        g \in {_get_uint64(cvalue, NANOCBOR_SIZE_SIZET, type)} })

_get_str(cvalue, type) ==
    Only({ _PACKED(cvalue, b, _get_str_body(b.it, type)) :
           b \in {__PACKED_HANDLE(cvalue)} })

nanocbor_get_bstr(cvalue) == _get_str(cvalue, NANOCBOR_TYPE_BSTR)

nanocbor_get_tstr(cvalue) == _get_str(cvalue, NANOCBOR_TYPE_TSTR)

_get_simple_exact(cvalue, val) ==
    Only({ _PACKED(cvalue, b, [_value_match_exact(b.it, val) EXCEPT !.hang = FALSE]
                                  @@ [out |-> Zero64]) :
           b \in {__PACKED_HANDLE(cvalue)} })

nanocbor_get_null(cvalue) ==
    _get_simple_exact(cvalue, NANOCBOR_TYPE_FLOAT * 32 + NANOCBOR_SIMPLE_NULL)

nanocbor_get_undefined(cvalue) ==
    _get_simple_exact(cvalue, NANOCBOR_TYPE_FLOAT * 32 + NANOCBOR_SIMPLE_UNDEF)

nanocbor_get_bool_body(cvalue) ==
    Only({ IF f.res >= NANOCBOR_OK THEN f @@ [out |-> FALSE]
           ELSE t @@ [out |-> (t.res >= NANOCBOR_OK)] :
           f \in {_value_match_exact(cvalue, NANOCBOR_TYPE_FLOAT * 32
                                             + NANOCBOR_SIMPLE_FALSE)},
           t \in {_value_match_exact(cvalue, NANOCBOR_TYPE_FLOAT * 32
                                             + NANOCBOR_SIMPLE_TRUE)} })

nanocbor_get_bool(cvalue) ==
    Only({ _PACKED(cvalue, b, nanocbor_get_bool_body(b.it)) :
           b \in {__PACKED_HANDLE(cvalue)} })

nanocbor_get_simple(cvalue) ==
    Only({ LET res == IF r.res = NANOCBOR_ERR_OVERFLOW
                      THEN NANOCBOR_ERR_INVALID_TYPE ELSE r.res
           IN  [r EXCEPT !.res = IF res > 0 THEN NANOCBOR_OK ELSE res] :
           r \in {_get_and_advance_uint8(cvalue, NANOCBOR_TYPE_FLOAT)} })


(***************************************************************************)
(* Floats.  A single is its 32 bits <<0, 0, hi16, lo16>>; a double is its  *)
(* 64 bits.  out.kind tells which of the two the output parameter holds    *)
(* (nanocbor_get_double widens a single by the C conversion float->double, *)
(* which keeps the value).                                                 *)
(***************************************************************************)
\* position of the highest set bit of 1 <= n < 1024
RECURSIVE HighBit(_)
HighBit(n) == IF n < 2 THEN 0 ELSE 1 + HighBit(n \div 2)

RECURSIVE Shl(_, _)
Shl(n, k) == IF k = 0 THEN n ELSE Shl(2 * n, k - 1)

\* the single with sign s, biased exponent e and 23-bit fraction m
SingleBits(s, e, m) ==
    <<0, 0, s * 32768 + e * 128 + (m \div 65536), m % 65536>>

\* the conversion of _decode_half_float for the 16-bit argument h
HalfToSingle(h) ==
    LET sign == h \div 32768
        significant == h % 1024
        exponent == (h \div 1024) % 32
    IN  IF exponent = 0
        \* *ifloat = magic + significant; *value -= *fmagic
        \* the assignment drops the sign; the result is significant * 2^-24
        THEN IF significant = 0 THEN SingleBits(0, 0, 0)
             ELSE LET k == HighBit(significant) IN
                  SingleBits(0, 103 + k, Shl(significant - Shl(1, k), 23 - k))
        ELSE LET e == IF exponent = 31 THEN 255 - 112 ELSE exponent IN
             SingleBits(sign, e + 112, significant * 8192)

NoFloat == [kind |-> "none", bits |-> Zero64]

_decode_half_float(cvalue) ==
    Only({ IF g.res = 3
           THEN [res |-> g.res, it |-> _advance_if(cvalue, g.res), hang |-> FALSE,
                 out |-> [kind |-> "single", bits |-> HalfToSingle(g.value[4])]]
           ELSE [res |-> IF g.res > 0 THEN NANOCBOR_ERR_INVALID_TYPE ELSE g.res,
                 it |-> cvalue, hang |-> FALSE, out |-> NoFloat] :
           g \in {_get_uint64(cvalue, NANOCBOR_SIZE_SHORT, NANOCBOR_TYPE_FLOAT)} })

_decode_float(cvalue) ==
    Only({ IF g.res = 5
           THEN [res |-> g.res, it |-> _advance_if(cvalue, g.res), hang |-> FALSE,
                 out |-> [kind |-> "single", bits |-> U64ToU32(g.value)]]
           ELSE [res |-> IF g.res > 0 THEN NANOCBOR_ERR_INVALID_TYPE ELSE g.res,
                 it |-> cvalue, hang |-> FALSE, out |-> NoFloat] :
           g \in {_get_uint64(cvalue, NANOCBOR_SIZE_WORD, NANOCBOR_TYPE_FLOAT)} })

_decode_double(cvalue) ==
    Only({ IF g.res = 9
           THEN [res |-> g.res, it |-> _advance_if(cvalue, g.res), hang |-> FALSE,
                 out |-> [kind |-> "double", bits |-> g.value]]
           ELSE [res |-> IF g.res > 0 THEN NANOCBOR_ERR_INVALID_TYPE ELSE g.res,
                 it |-> cvalue, hang |-> FALSE, out |-> NoFloat] :
           g \in {_get_uint64(cvalue, NANOCBOR_SIZE_LONG, NANOCBOR_TYPE_FLOAT)} })

nanocbor_get_float_body(cvalue) ==
    Only({ IF h.res < 0 THEN _decode_float(cvalue) ELSE h :
           h \in {_decode_half_float(cvalue)} })

nanocbor_get_float(cvalue) ==
    Only({ _PACKED(cvalue, b, nanocbor_get_float_body(b.it)) :
           b \in {__PACKED_HANDLE(cvalue)} })

\* nanocbor_get_double returns straight from the inner nanocbor_get_float
\* when that succeeds: _PACKED_HANDLE_END is not reached on that path, and
\* the cursor nanocbor_get_float advanced is the one cvalue points to then
\* (__inner for a packed item, the caller's cursor otherwise)
nanocbor_get_double(cvalue) ==
    Only({
        IF b.hang
        THEN [res |-> NANOCBOR_OK, it |-> cvalue, hang |-> TRUE, out |-> NoFloat]
        ELSE IF b.failed
        THEN [res |-> b.res, it |-> cvalue, hang |-> FALSE, out |-> NoFloat]
        ELSE Only({
                 IF f.hang THEN [f EXCEPT !.it = cvalue]
                 ELSE IF f.res >= NANOCBOR_OK
                 THEN [f EXCEPT !.it = IF b.packed THEN cvalue ELSE f.it]
                 ELSE _PACKED_HANDLE_END(b, cvalue, _decode_double(b.it)) :
                 f \in {nanocbor_get_float(b.it)} }) :
        b \in {__PACKED_HANDLE(cvalue)} })

(***************************************************************************)
(* Containers                                                              *)
(***************************************************************************)
\* *container before the call: an uninitialised nanocbor_value_t whose
\* remaining field holds garbage
Uninit(garbage) ==
    [cur |-> 0, end |-> 0, remaining |-> garbage, flags |-> {}, tables |-> <<>>]

\* _enter_container: the result carries the child in it.  In packed mode the
\* macro returns the resolver's error before *container is written
_enter_container(it, container0, type) ==
    IF _packed_enabled(it)
    THEN Only({
             IF b.hang THEN Spin(container0)
             ELSE IF b.failed THEN Ret(b.res, container0)
             ELSE __enter_container(b.it,
                      [container0 EXCEPT
                          !.tables = b.it.tables,
                          !.flags = {FLAG_PACKED_SUPPORT}
                                    \cup (IF b.packed THEN {FLAG_SHARED} ELSE {})],
                      type) :
             b \in {__PACKED_HANDLE(it)} })
    ELSE __enter_container(it, [container0 EXCEPT !.flags = {}], type)

nanocbor_enter_array(it, container0) ==
    _enter_container(it, container0, NANOCBOR_TYPE_ARR)

\* a * 2 for a <= UINT64_MAX / 2
U64Double(a) == U64Add(a, a)

\* nanocbor_enter_map without the test against UINT64_MAX / 2: the count is
\* doubled modulo 2^64
nanocbor_enter_map_wrapping(it, container0) ==
    Only({ IF e.hang THEN e
           ELSE Ret(e.res, [e.it EXCEPT !.remaining = U64Double(@)]) :
           e \in {_enter_container(it, container0, NANOCBOR_TYPE_MAP)} })

nanocbor_enter_map(it, container0) ==
    Only({ IF e.hang THEN e
           ELSE IF U64Gt(e.it.remaining, UINT64_MAX_HALF)
           THEN Ret(NANOCBOR_ERR_OVERFLOW, e.it)
           ELSE Ret(e.res, [e.it EXCEPT !.remaining = U64Double(@)]) :
           e \in {_enter_container(it, container0, NANOCBOR_TYPE_MAP)} })

\* nanocbor_leave_container without the test of the position of the child
nanocbor_leave_container_unplaced(it, container) ==
    IF ~nanocbor_in_container(container) \/ ~nanocbor_at_end(container)
    THEN Ret(NANOCBOR_ERR_INVALID_TYPE, it)
    ELSE IF FLAG_SHARED \in container.flags
    THEN _skip_limited(it, NANOCBOR_RECURSION_MAX)
    ELSE Ret(NANOCBOR_OK,
             [it EXCEPT !.remaining = IF @ # Zero64 THEN U64Dec(@) ELSE @,
                        !.cur = IF nanocbor_container_indefinite(container)
                                THEN container.cur + 1 ELSE container.cur])

\* nanocbor_leave_container without the branch for shared containers
nanocbor_leave_container_unshared(it, container) ==
    IF ~nanocbor_in_container(container) \/ ~nanocbor_at_end(container)
    THEN Ret(NANOCBOR_ERR_INVALID_TYPE, it)
    ELSE IF container.cur <= it.cur \/ container.cur > it.end
    THEN Ret(NANOCBOR_ERR_INVALID_TYPE, it)
    ELSE Ret(NANOCBOR_OK,
             [it EXCEPT !.remaining = IF @ # Zero64 THEN U64Dec(@) ELSE @,
                        !.cur = IF nanocbor_container_indefinite(container)
                                THEN container.cur + 1 ELSE container.cur])

nanocbor_leave_container(it, container) ==
    IF ~nanocbor_in_container(container) \/ ~nanocbor_at_end(container)
    THEN Ret(NANOCBOR_ERR_INVALID_TYPE, it)
    ELSE IF FLAG_SHARED \in container.flags
    THEN _skip_limited(it, NANOCBOR_RECURSION_MAX)
    ELSE IF container.cur <= it.cur \/ container.cur > it.end
    THEN Ret(NANOCBOR_ERR_INVALID_TYPE, it)
    ELSE Ret(NANOCBOR_OK,
             [it EXCEPT !.remaining = IF @ # Zero64 THEN U64Dec(@) ELSE @,
                        !.cur = IF nanocbor_container_indefinite(container)
                                THEN container.cur + 1 ELSE container.cur])

(***************************************************************************)
(* Skipping                                                                *)
(***************************************************************************)
_skip_simple(it) ==
    LET type == __get_type(it) IN
    IF type = NANOCBOR_TYPE_BSTR \/ type = NANOCBOR_TYPE_TSTR
    THEN Only({ [res |-> r.res, it |-> r.it, hang |-> r.hang] :
                r \in {_get_str(it, type)} })
    ELSE Only({ Ret(IF g.res > 0 THEN NANOCBOR_OK ELSE g.res,
                    _advance_if(it, g.res)) :
                g \in {_get_uint64(it, NANOCBOR_SIZE_LONG, type)} })

nanocbor_skip_simple(it) == _skip_simple(it)

\* while (!nanocbor_at_end(&recurse)) { res = _skip_limited(&recurse, limit - 1);
\*                                      if (res < 0) break; }
\* an iteration that returns OK and leaves recurse as it was repeats for ever
RECURSIVE _skip_loop(_, _, _)
_skip_loop(recurse, limit, res) ==
    IF nanocbor_at_end(recurse) THEN Ret(res, recurse)
    ELSE Only({ IF s.hang THEN s
                ELSE IF s.res < 0 THEN Ret(s.res, s.it)
                ELSE IF s.it = recurse THEN Spin(recurse)
                ELSE _skip_loop(s.it, limit, s.res) :
                s \in {_skip_limited(recurse, limit - 1)} })

\* the tag branch of _skip_limited declares its own res, so what the outer
\* res holds at the return statement is still the major type
_skip_tag(it, limit, type) ==
    Only({ IF g.res >= 0
           THEN Only({ [res |-> type, it |-> s.it, hang |-> s.hang] :
                       s \in {_skip_limited([it EXCEPT !.cur = @ + g.res],
                                            limit - 1)} })
           ELSE Ret(type, it) :
           g \in {_get_uint64(it, NANOCBOR_SIZE_WORD, NANOCBOR_TYPE_TAG)} })

_skip_limited_code(it, limit) ==
    IF limit = 0 THEN Ret(NANOCBOR_ERR_RECURSION, it)
    ELSE
    LET type == __get_type(it) IN
    Only({
        [r EXCEPT !.res = IF @ < 0 THEN @ ELSE NANOCBOR_OK] :
        r \in {
            IF type = NANOCBOR_TYPE_ARR \/ type = NANOCBOR_TYPE_MAP
            THEN Only({
                     IF e.hang THEN Spin(it)
                     ELSE IF e.res = NANOCBOR_OK
                     THEN Only({
                              IF l.hang THEN Spin(it)
                              ELSE Only({ [res |-> l.res, it |-> lv.it,
                                           hang |-> lv.hang] :
                                          lv \in {nanocbor_leave_container(it, l.it)} }) :
                              l \in {_skip_loop(e.it, limit, e.res)} })
                     ELSE Ret(e.res, it) :
                     e \in {IF type = NANOCBOR_TYPE_MAP
                            THEN nanocbor_enter_map(it, Uninit(Zero64))
                            ELSE nanocbor_enter_array(it, Uninit(Zero64))} })
            ELSE IF type = NANOCBOR_TYPE_TAG THEN _skip_tag(it, limit, type)
            ELSE IF type >= 0 THEN _skip_simple(it)
            ELSE Ret(type, it)} })

call(fn, a) ==
    IF fn = "_skip_limited" THEN _skip_limited_code(a[1], a[2])
    ELSE _packed_handle_code(a[1], a[2])

nanocbor_skip(it) == _skip_limited(it, NANOCBOR_RECURSION_MAX)

nanocbor_get_subcbor(it) ==
    Only({ [res |-> s.res, it |-> s.it, hang |-> s.hang,
            out |-> [buf |-> it.cur, len |-> s.it.cur - it.cur]] :
           s \in {nanocbor_skip(it)} })

nanocbor_get_type(value) ==
    Only({ IF b.hang THEN Spin(value)
           ELSE IF b.failed THEN Ret(b.res, value)
           ELSE Ret(__get_type(b.it), value) :
           b \in {__PACKED_HANDLE(value)} })


\* nanocbor_get_decimal_frac; out holds e and m as written by the two
\* nanocbor_get_int32 calls.  The return value of nanocbor_leave_container
\* is not looked at
NoInt == [neg |-> FALSE, mag |-> Zero64]

nanocbor_get_decimal_frac(cvalue) ==
    LET none == [e |-> NoInt, m |-> NoInt] IN
    Only({
        IF t.hang
        THEN [res |-> NANOCBOR_OK, it |-> cvalue, hang |-> TRUE, out |-> none]
        ELSE IF t.res # NANOCBOR_OK \/ t.out # U64(NANOCBOR_TAG_DEC_FRAC)
        THEN [res |-> NANOCBOR_NOT_FOUND, it |-> t.it, hang |-> FALSE, out |-> none]
        ELSE
        Only({
            IF a.hang
            THEN [res |-> NANOCBOR_OK, it |-> t.it, hang |-> TRUE, out |-> none]
            ELSE IF a.res # NANOCBOR_OK
            THEN [res |-> NANOCBOR_NOT_FOUND, it |-> t.it, hang |-> FALSE,
                  out |-> none]
            ELSE
            Only({
                \* m is the second nanocbor_get_int32, made when the first
                \* one succeeded
                Only({
                    LET arr == IF e.res >= 0 THEN m.it ELSE e.it
                        res == IF e.res >= 0
                               THEN (IF m.res >= 0 THEN NANOCBOR_OK ELSE m.res)
                               ELSE e.res
                    IN  Only({
                            [res |-> res, it |-> lv.it,
                             hang |-> e.hang \/ (e.res >= 0 /\ m.hang) \/ lv.hang,
                             out |-> [e |-> e.out,
                                      m |-> IF e.res >= 0 THEN m.out ELSE NoInt]] :
                            lv \in {nanocbor_leave_container(t.it, arr)} }) :
                    m \in {IF ~e.hang /\ e.res >= 0 THEN nanocbor_get_int32(e.it)
                           ELSE e} }) :
                e \in {nanocbor_get_int32(a.it)} }) :
            a \in {nanocbor_enter_array(t.it, Uninit(Zero64))} }) :
        t \in {nanocbor_get_tag(cvalue)} })

\* s_len == len && !strncmp(key, s, len) for the slice (s, s_len) returned by
\* nanocbor_get_tstr.  strncmp stops at the first difference; when the slice
\* runs past the buffer the bytes beyond it are not the program's, and oob is
\* the outcome of comparing them
_key_match(key, s, s_len, oob) ==
    /\ U64Small(s_len)
    /\ U64ToNat(s_len) = Len(key)
    /\ \A i \in 1..Len(key) : s + i - 1 < Len(buf) => Byte(s + i - 1) = key[i]
    /\ (s + Len(key) > Len(buf) => oob)

RECURSIVE _get_key_loop(_, _, _, _)
_get_key_loop(value, key, res, oob) ==
    IF nanocbor_at_end(value) THEN Ret(res, value)
    ELSE Only({
             IF g.hang THEN Spin(g.it)
             ELSE IF g.res < 0 THEN Ret(g.res, g.it)
             ELSE IF _key_match(key, g.out.buf, g.out.len, oob)
             THEN Ret(NANOCBOR_OK, g.it)
             ELSE Only({ IF s.hang THEN Spin(s.it)
                         ELSE IF s.res < 0 THEN Ret(s.res, s.it)
                         ELSE _get_key_loop(s.it, key, s.res, oob) :
                         s \in {nanocbor_skip(g.it)} }) :
             g \in {nanocbor_get_tstr(value)} })

\* nanocbor_get_key_tstr(start, key, value): it is *value after the call
nanocbor_get_key_tstr(start, key, oob) ==
    _get_key_loop(start, key, NANOCBOR_NOT_FOUND, oob)


(***************************************************************************)
(* Inputs                                                                  *)
(***************************************************************************)
\* longest enumerated input and deepest chain of entered containers
MaxLen == 2

MaxDepth == 3

\* bytes the enumerated inputs are made of: uint 1, bstr of 1 byte, array of
\* 1, indefinite array, break
Alphabet == {1, 65, 129, 159, 255}

RECURSIVE SeqsUpTo(_, _)
SeqsUpTo(S, n) ==
    IF n = 0 THEN {<<>>}
    ELSE LET shorter == SeqsUpTo(S, n - 1) IN
         shorter \cup {Append(q, b) : q \in {x \in shorter : Len(x) = n - 1}, b \in S}

RECURSIVE Repeat(_, _)
Repeat(b, n) == IF n = 0 THEN <<>> ELSE <<b>> \o Repeat(b, n - 1)

\* inputs of the test suite and inputs built for particular paths, decoded
\* with and without packed support
Vectors == {
    \* tests/automated/test_decoder.c
    <<159, 1, 2, 3, 255>>,
    <<160>>,
    <<161, 1, 2>>,
    \* maps of 2^63 - 1 and of 2^63 pairs
    <<187, 127, 255, 255, 255, 255, 255, 255, 255>>,
    <<187, 128, 0, 0, 0, 0, 0, 0, 0>>,
    <<130, 216, 55, 1, 2>>,
    <<196, 130, 33, 25, 106, 179>>,
    \* a decimal fraction inside an array
    <<129, 196, 130, 33, 0>>,
    \* tag 4 around an array of three integers
    <<196, 131, 33, 0, 0>>,
    \* a 64-bit tag number, alone and inside an array
    <<219, 0, 0, 0, 0, 0, 0, 0, 1, 0>>,
    <<129, 219>>,
    \* a tag without content
    <<193>>,
    \* heads whose additional information is 28, 29 and 30
    <<28>>,
    <<93>>,
    <<254>>,
    \* tags and arrays nested to the recursion limit and one beyond
    Repeat(193, NANOCBOR_RECURSION_MAX) \o <<0>>,
    Repeat(193, NANOCBOR_RECURSION_MAX + 1) \o <<0>>,
    Repeat(129, NANOCBOR_RECURSION_MAX) \o <<0>>,
    \* an empty array followed by null, maps with text and integer keys
    <<128, 246>>,
    <<128, 159, 255>>,
    <<161, 97, 97, 1>>,
    <<162, 97, 97, 1, 97, 98, 2>>,
    <<162, 1, 2, 97, 97, 3>>,
    <<161, 97, 97, 97, 98>>,
    <<161, 97>>,
    \* tests/automated/test_decoder_packed.c, test_packed_enable: tag 113 and
    \* simple(0) read without packed support; tag 6 in front of an integer
    <<216, 113, 130, 129, 246, 224>>,
    <<198, 0>>
}

\* packed CBOR, decoded by a cursor of nanocbor_decoder_init_packed
PackedVectors == {
    \* tests/automated/test_decoder_packed.c
    <<216, 113, 130, 129, 246, 224>>,
    <<216, 113, 130, 128, 246>>,
    <<216, 113, 130, 129, 97, 97, 224>>,
    <<216, 113, 130, 129, 129, 246, 224>>,
    <<216, 113, 130, 129, 129, 246, 129, 224>>,
    <<216, 113, 130, 129, 246, 129, 225>>,
    \* three table definitions nested as rumps around an array that holds a
    \* fourth
    <<216, 113, 130, 128, 216, 113, 130, 128, 216, 113, 130, 128,
      129, 216, 113, 130, 128, 246>>,
    <<216, 113, 130, 130, 225, 246, 224>>,
    <<216, 113, 130, 129, 244, 216, 113, 130, 129, 245, 225>>,
    <<224>>,
    <<216, 113, 130, 128, 224>>,
    <<216, 113, 130, 129, 224, 224>>,
    \* a half float in the table, references from inside a rump array, an
    \* indefinite-length table, a tag 6 reference
    <<216, 113, 130, 129, 249, 60, 0, 224>>,
    <<216, 113, 130, 129, 249, 60, 0, 129, 224>>,
    <<216, 113, 130, 130, 244, 245, 130, 225, 224>>,
    <<216, 113, 130, 159, 244, 245, 255, 225>>,
    <<216, 113, 130, 146, 0, 244, 244, 244, 244, 244, 244, 244, 244, 244, 244,
      244, 244, 244, 244, 244, 245, 246, 198, 0>>
}

Inputs == SeqsUpTo(Alphabet, MaxLen) \cup Vectors \cup PackedVectors

\* what an uninitialised uint64_t may hold
Garbage == {Zero64, UINT64_MAX}

\* keys nanocbor_get_key_tstr is called with: "a" and "b"
Keys == {<<97>>, <<98>>}

Init ==
    /\ buf \in Inputs
    /\ \E g \in Garbage,
          packed \in IF buf \in PackedVectors \ Vectors THEN {TRUE} ELSE BOOLEAN :
          stack = << IF packed
                     THEN nanocbor_decoder_init_packed(0, Len(buf), g)
                     ELSE nanocbor_decoder_init(Len(buf), g) >>
    /\ prev = stack
    /\ last = [op |-> "init", res |-> NANOCBOR_OK, out |-> Zero64]
    /\ hung = FALSE
    /\ encs = <<>>

(***************************************************************************)
(* One action per API call, applied to the innermost cursor                *)
(***************************************************************************)
Top == stack[Len(stack)]

\* a call that works on the innermost cursor and returns r
Call(op, r) ==
    /\ ~hung
    /\ prev' = stack
    /\ hung' = r.hang
    /\ stack' = IF r.hang THEN stack ELSE [stack EXCEPT ![Len(stack)] = r.it]
    /\ last' = IF r.hang THEN [op |-> op, res |-> NANOCBOR_OK, out |-> Zero64]
               ELSE [op |-> op, res |-> r.res, out |-> r.out]
    /\ UNCHANGED <<buf, encs>>

NoOut(r) == [res |-> r.res, it |-> r.it, hang |-> r.hang, out |-> Zero64]

GetUint8 == Call("get_uint8", nanocbor_get_uint8(Top))

GetUint16 == Call("get_uint16", nanocbor_get_uint16(Top))

GetUint32 == Call("get_uint32", nanocbor_get_uint32(Top))

GetUint64 == Call("get_uint64", nanocbor_get_uint64(Top))

GetInt8 == Call("get_int8", nanocbor_get_int8(Top))

GetInt16 == Call("get_int16", nanocbor_get_int16(Top))

GetInt32 == Call("get_int32", nanocbor_get_int32(Top))

GetInt64 == Call("get_int64", nanocbor_get_int64(Top))

GetTag == Call("get_tag", nanocbor_get_tag(Top))

GetBstr == Call("get_bstr", nanocbor_get_bstr(Top))

GetTstr == Call("get_tstr", nanocbor_get_tstr(Top))

GetNull == Call("get_null", nanocbor_get_null(Top))

GetUndefined == Call("get_undefined", nanocbor_get_undefined(Top))

GetBool == Call("get_bool", nanocbor_get_bool(Top))

GetSimple == Call("get_simple", nanocbor_get_simple(Top))

GetFloat == Call("get_float", nanocbor_get_float(Top))

GetDouble == Call("get_double", nanocbor_get_double(Top))

GetDecimalFrac == Call("get_decimal_frac", nanocbor_get_decimal_frac(Top))

Skip == Call("skip", NoOut(nanocbor_skip(Top)))

SkipSimple == Call("skip_simple", NoOut(nanocbor_skip_simple(Top)))

GetSubcbor == Call("get_subcbor", nanocbor_get_subcbor(Top))

GetType == Call("get_type", NoOut(nanocbor_get_type(Top)))

\* nanocbor_get_key_tstr leaves start alone; out is the cursor *value
GetKeyTstr ==
    \E key \in Keys, oob \in BOOLEAN :
        \E r \in {nanocbor_get_key_tstr(Top, key, oob)} :
            Call("get_key_tstr",
                 [res |-> r.res, it |-> Top, hang |-> r.hang,
                  out |-> [key |-> key, value |-> r.it]])

\* nanocbor_enter_array / nanocbor_enter_map into an uninitialised child;
\* the caller keeps the child when the call succeeds
Enter(op, r) ==
    /\ ~hung
    /\ Len(stack) < MaxDepth
    /\ prev' = stack
    /\ hung' = r.hang
    /\ stack' = IF ~r.hang /\ r.res = NANOCBOR_OK THEN Append(stack, r.it) ELSE stack
    /\ last' = IF r.hang THEN [op |-> op, res |-> NANOCBOR_OK, out |-> Zero64]
               ELSE [op |-> op, res |-> r.res, out |-> Zero64]
    /\ UNCHANGED <<buf, encs>>

EnterArray == \E g \in Garbage : Enter("enter_array", nanocbor_enter_array(Top, Uninit(g)))

EnterMap == \E g \in Garbage : Enter("enter_map", nanocbor_enter_map(Top, Uninit(g)))

\* nanocbor_leave_container(parent, child) on the two innermost cursors; the
\* caller drops the child when the call succeeds
LeaveContainer ==
    /\ ~hung
    /\ Len(stack) >= 2
    /\ LET n == Len(stack) IN
       \E r \in {nanocbor_leave_container(stack[n - 1], stack[n])} :
           /\ prev' = stack
           /\ hung' = r.hang
           /\ stack' = IF r.hang THEN stack
                       ELSE IF r.res = NANOCBOR_OK
                       THEN [SubSeq(stack, 1, n - 1) EXCEPT ![n - 1] = r.it]
                       ELSE [stack EXCEPT ![n - 1] = r.it]
           /\ last' = IF r.hang
                      THEN [op |-> "leave_container", res |-> NANOCBOR_OK,
                            out |-> Zero64]
                      ELSE [op |-> "leave_container", res |-> r.res, out |-> Zero64]
    /\ UNCHANGED <<buf, encs>>

\* nanocbor_leave_container(it, container) with the innermost cursor as it
\* and, as container, a cursor that was not entered from it: the cursor
\* itself or one of the cursors around it; out names that cursor
LeaveContainerOther ==
    /\ ~hung
    /\ \E j \in 1..Len(stack) :
           \E r \in {nanocbor_leave_container(Top, stack[j])} :
               /\ prev' = stack
               /\ hung' = r.hang
               /\ stack' = IF r.hang THEN stack
                           ELSE [stack EXCEPT ![Len(stack)] = r.it]
               /\ last' = [op |-> "leave_container_other",
                           res |-> IF r.hang THEN NANOCBOR_OK ELSE r.res,
                           out |-> [container |-> j]]
    /\ UNCHANGED <<buf, encs>>

Next ==
    \/ GetUint8 \/ GetUint16 \/ GetUint32 \/ GetUint64
    \/ GetInt8 \/ GetInt16 \/ GetInt32 \/ GetInt64
    \/ GetTag \/ GetBstr \/ GetTstr
    \/ GetNull \/ GetUndefined \/ GetBool \/ GetSimple
    \/ GetFloat \/ GetDouble \/ GetDecimalFrac
    \/ Skip \/ SkipSimple \/ GetSubcbor \/ GetType \/ GetKeyTstr
    \/ EnterArray \/ EnterMap \/ LeaveContainer \/ LeaveContainerOther

Spec == Init /\ [][Next]_vars

(***************************************************************************)
(* The decoder with packed support over inputs in which a reference leads  *)
(* to a tagged item or to the older of two tables                          *)
(***************************************************************************)
TableVectors == {
    \* tests/automated/test_decoder_packed.c, test_packed_within_tag:
    \* 41(113([[null], [simple(0)]]))
    <<216, 41, 216, 113, 130, 129, 246, 129, 224>>,
    \* a tag in the table, reached by a reference: 113([[1(0)], simple(0)])
    <<216, 113, 130, 129, 193, 0, 224>>,
    \* test_packed_nested_tables_with_indirection:
    \* 113([[true, simple(0)], 113([[false], simple(2)])])
    <<216, 113, 130, 130, 245, 224, 216, 113, 130, 129, 244, 226>>,
    \* a rump array that refers to the older of two tables:
    \* 113([[false], 113([[true], [simple(1)]])])
    <<216, 113, 130, 129, 244, 216, 113, 130, 129, 245, 129, 225>>,
    \* tag 113 around an integer, around arrays of 0, 1 and 3 elements and
    \* around [0, null]
    <<216, 113, 0>>,
    <<216, 113, 128>>,
    <<216, 113, 129, 128>>,
    <<216, 113, 131, 128, 246, 246>>,
    <<216, 113, 130, 0, 246>>
}

InitTables ==
    /\ buf \in TableVectors
    /\ \E g \in Garbage : stack = <<nanocbor_decoder_init_packed(0, Len(buf), g)>>
    /\ prev = stack
    /\ last = [op |-> "init", res |-> NANOCBOR_OK, out |-> Zero64]
    /\ hung = FALSE
    /\ encs = <<>>

SpecTables == InitTables /\ [][Next]_vars

(***************************************************************************)
(* Encoder (src/src/encoder.c) with the memory sink.  out holds the bytes  *)
(* appended so far, which lie at buf[0 .. cur); append copies without a    *)
(* test of its own, so cur > end stands for a write beyond the buffer.     *)
(* granted is kept for the sink: the number of bytes the last call of fits *)
(* has accepted and append has not yet received, negative (and kept        *)
(* negative) once append was given more than that.                         *)
(***************************************************************************)
NANOCBOR_MASK_UINT == NANOCBOR_TYPE_UINT * 32

NANOCBOR_MASK_NINT == NANOCBOR_TYPE_NINT * 32

NANOCBOR_MASK_BSTR == NANOCBOR_TYPE_BSTR * 32

NANOCBOR_MASK_TSTR == NANOCBOR_TYPE_TSTR * 32

NANOCBOR_MASK_ARR == NANOCBOR_TYPE_ARR * 32

NANOCBOR_MASK_MAP == NANOCBOR_TYPE_MAP * 32

NANOCBOR_MASK_TAG == NANOCBOR_TYPE_TAG * 32

NANOCBOR_MASK_FLOAT == NANOCBOR_TYPE_FLOAT * 32

nanocbor_encoder_init(len) ==
    [len |-> 0, cur |-> 0, end |-> len, out |-> <<>>, granted |-> 0]

nanocbor_encoded_len(enc) == enc.len

_encoder_mem_fits(enc, len) == enc.end - enc.cur >= len

_encoder_mem_append(enc, data) ==
    [enc EXCEPT !.out = @ \o data, !.cur = @ + Len(data),
                !.granted = IF @ < 0 THEN @ ELSE @ - Len(data)]

_incr_len(enc, len) == [enc EXCEPT !.len = @ + len]

\* a sink that accepts every request
_fits_always(enc, len) == len

_fits(enc, len) == IF _encoder_mem_fits(enc, len) THEN len ELSE NANOCBOR_ERR_END

\* the encoder after the call _fits(enc, len) that returned res
Asked(enc, res) ==
    [enc EXCEPT !.granted = IF @ < 0 THEN @ ELSE IF res >= 0 THEN res ELSE 0]

\* _fmt_single that counts the byte only when it fits
_fmt_single_fitting(enc, single) ==
    LET res == _fits(enc, 1) IN
    [res |-> res,
     enc |-> IF res = 1
             THEN _encoder_mem_append(Asked(_incr_len(enc, 1), res), <<single>>)
             ELSE Asked(enc, res)]

_fmt_single(enc, single) ==
    LET e1 == _incr_len(enc, 1)
        res == _fits(e1, 1)
    IN  [res |-> res,
         enc |-> IF res = 1 THEN _encoder_mem_append(Asked(e1, res), <<single>>)
                 ELSE Asked(e1, res)]

nanocbor_fmt_bool(enc, content) ==
    _fmt_single(enc, NANOCBOR_MASK_FLOAT
                      + (IF content THEN NANOCBOR_SIMPLE_TRUE
                         ELSE NANOCBOR_SIMPLE_FALSE))

\* the eight bytes of NANOCBOR_HTOBE64_FUNC(num) in memory order
U64ToBytes(num) ==
    <<num[1] \div 256, num[1] % 256, num[2] \div 256, num[2] % 256,
      num[3] \div 256, num[3] % 256, num[4] \div 256, num[4] % 256>>

\* _fmt_uint64 with the boundary of the one-byte form moved by one
_fmt_uint64_inline24(enc, num, type) ==
    LET size == IF ~U64Gt(num, U64(NANOCBOR_SIZE_BYTE)) THEN num[4]
                ELSE IF U64Gt(num, UINT32_MAX) THEN NANOCBOR_SIZE_LONG
                ELSE IF U64Gt(num, UINT16_MAX) THEN NANOCBOR_SIZE_WORD
                ELSE IF U64Gt(num, UINT8_MAX) THEN NANOCBOR_SIZE_SHORT
                ELSE NANOCBOR_SIZE_BYTE
        extrabytes == IF ~U64Gt(num, U64(NANOCBOR_SIZE_BYTE)) THEN 0
                      ELSE Pow2(size - NANOCBOR_SIZE_BYTE)
        e1 == _incr_len(enc, extrabytes + 1)
        res == _fits(e1, extrabytes + 1)
    IN  [res |-> res,
         enc |-> IF res > 0
                 THEN _encoder_mem_append(
                          _encoder_mem_append(Asked(e1, res), <<type + size>>),
                          SubSeq(U64ToBytes(num), 8 - extrabytes + 1, 8))
                 ELSE Asked(e1, res)]

\* _fmt_uint64 that writes UINT8_MAX with two bytes of argument
_fmt_uint64_short255(enc, num, type) ==
    LET size == IF U64Lt(num, U64(NANOCBOR_SIZE_BYTE)) THEN num[4]
                ELSE IF U64Gt(num, UINT32_MAX) THEN NANOCBOR_SIZE_LONG
                ELSE IF U64Gt(num, UINT16_MAX) THEN NANOCBOR_SIZE_WORD
                ELSE IF ~U64Lt(num, UINT8_MAX) THEN NANOCBOR_SIZE_SHORT
                ELSE NANOCBOR_SIZE_BYTE
        extrabytes == IF U64Lt(num, U64(NANOCBOR_SIZE_BYTE)) THEN 0
                      ELSE Pow2(size - NANOCBOR_SIZE_BYTE)
        e1 == _incr_len(enc, extrabytes + 1)
        res == _fits(e1, extrabytes + 1)
    IN  [res |-> res,
         enc |-> IF res > 0
                 THEN _encoder_mem_append(
                          _encoder_mem_append(Asked(e1, res), <<type + size>>),
                          SubSeq(U64ToBytes(num), 8 - extrabytes + 1, 8))
                 ELSE Asked(e1, res)]

\* _fmt_uint64: type | size is type + size, the low five bits of type are 0
_fmt_uint64(enc, num, type) ==
    LET size == IF U64Lt(num, U64(NANOCBOR_SIZE_BYTE)) THEN num[4]
                ELSE IF U64Gt(num, UINT32_MAX) THEN NANOCBOR_SIZE_LONG
                ELSE IF U64Gt(num, UINT16_MAX) THEN NANOCBOR_SIZE_WORD
                ELSE IF U64Gt(num, UINT8_MAX) THEN NANOCBOR_SIZE_SHORT
                ELSE NANOCBOR_SIZE_BYTE
        extrabytes == IF U64Lt(num, U64(NANOCBOR_SIZE_BYTE)) THEN 0
                      ELSE Pow2(size - NANOCBOR_SIZE_BYTE)
        e1 == _incr_len(enc, extrabytes + 1)
        res == _fits(e1, extrabytes + 1)
    IN  [res |-> res,
         enc |-> IF res > 0
                 THEN _encoder_mem_append(
                          _encoder_mem_append(Asked(e1, res), <<type + size>>),
                          SubSeq(U64ToBytes(num), 8 - extrabytes + 1, 8))
                 ELSE Asked(e1, res)]

nanocbor_fmt_uint(enc, num) == _fmt_uint64(enc, num, NANOCBOR_MASK_UINT)

nanocbor_fmt_tag(enc, num) == _fmt_uint64(enc, num, NANOCBOR_MASK_TAG)

\* an int64_t is its 64 bits in two's complement
Int64Negative(num) == num[1] >= 32768

\* -a modulo 2^64
Int64Neg(a) ==
    U64Add(<<65535 - a[1], 65535 - a[2], 65535 - a[3], 65535 - a[4]>>, U64(1))

nanocbor_fmt_int(enc, num) ==
    IF Int64Negative(num)
    THEN _fmt_uint64(enc, Int64Neg(U64Add(num, U64(1))), NANOCBOR_MASK_NINT)
    ELSE nanocbor_fmt_uint(enc, num)

\* value is a uint8_t
nanocbor_fmt_simple(enc, value) ==
    IF value >= NANOCBOR_SIMPLE_FALSE /\ value <= NANOCBOR_SIZE_INDEFINITE
    THEN [res |-> NANOCBOR_ERR_INVALID_TYPE, enc |-> enc]
    ELSE _fmt_uint64(enc, U64(value), NANOCBOR_MASK_FLOAT)

\* len is a size_t of 64 bits
nanocbor_fmt_bstr(enc, len) == _fmt_uint64(enc, len, NANOCBOR_MASK_BSTR)

nanocbor_fmt_tstr(enc, len) == _fmt_uint64(enc, len, NANOCBOR_MASK_TSTR)

\* _put_bytes; str holds the len bytes
_put_bytes(enc, str) ==
    LET e1 == _incr_len(enc, Len(str))
        res == _fits(e1, Len(str))
    IN  IF res >= 0
        THEN [res |-> NANOCBOR_OK,
              enc |-> _encoder_mem_append(Asked(e1, res), str)]
        ELSE [res |-> res, enc |-> Asked(e1, res)]

\* str without its terminating NUL; the result of nanocbor_fmt_tstr is dropped
nanocbor_put_tstr(enc, str) ==
    _put_bytes(nanocbor_fmt_tstr(enc, U64(Len(str))).enc, str)

\* str holds at least len bytes
nanocbor_put_tstrn(enc, str, len) ==
    _put_bytes(nanocbor_fmt_tstr(enc, U64(len)).enc, SubSeq(str, 1, len))

nanocbor_put_bstr(enc, str, len) ==
    _put_bytes(nanocbor_fmt_bstr(enc, U64(len)).enc, SubSeq(str, 1, len))

nanocbor_fmt_array(enc, len) == _fmt_uint64(enc, len, NANOCBOR_MASK_ARR)

nanocbor_fmt_map(enc, len) == _fmt_uint64(enc, len, NANOCBOR_MASK_MAP)

nanocbor_fmt_array_indefinite(enc) ==
    _fmt_single(enc, NANOCBOR_MASK_ARR + NANOCBOR_SIZE_INDEFINITE)

nanocbor_fmt_map_indefinite(enc) ==
    _fmt_single(enc, NANOCBOR_MASK_MAP + NANOCBOR_SIZE_INDEFINITE)

nanocbor_fmt_end_indefinite(enc) ==
    _fmt_single(enc, NANOCBOR_MASK_FLOAT + NANOCBOR_SIZE_INDEFINITE)

nanocbor_fmt_null(enc) ==
    _fmt_single(enc, NANOCBOR_MASK_FLOAT + NANOCBOR_SIMPLE_NULL)

(***************************************************************************)
(* Floats.  A float is its 32 bits <<0, 0, hi, lo>>, a double its 64 bits  *)
(* as four limbs of 16 bits.                                               *)
(***************************************************************************)
DOUBLE_EXP_OFFSET == 1023

DOUBLE_EXP_IS_NAN == 2047

DOUBLE_FLOAT_LOSS == 536870911

FLOAT_EXP_OFFSET == 127

FLOAT_EXP_IS_NAN == 255

FLOAT_HALF_LOSS == 8191

HALF_EXP_OFFSET == 15

_single_is_inf_nan(exp) == exp = FLOAT_EXP_IS_NAN

\* (num & FLOAT_IS_ZERO) == 0
_single_is_zero(num) == num[3] % 32768 = 0 /\ num[4] = 0

\* _single_in_range with the lower bound -HALF_EXP_OFFSET + FLOAT_EXP_OFFSET,
\* which lets the exponent 112 of 2^-15 through
_single_in_range_from112(exp, num) ==
    /\ exp <= HALF_EXP_OFFSET + FLOAT_EXP_OFFSET
    /\ exp >= FLOAT_EXP_OFFSET - HALF_EXP_OFFSET
    /\ num[4] % (FLOAT_HALF_LOSS + 1) = 0

\* the lower bound is (-HALF_EXP_OFFSET + 1) + FLOAT_EXP_OFFSET in unsigned
\* arithmetic; num & FLOAT_HALF_LOSS are the low 13 bits
_single_in_range(exp, num) ==
    /\ exp <= HALF_EXP_OFFSET + FLOAT_EXP_OFFSET
    /\ exp >= (FLOAT_EXP_OFFSET + 1) - HALF_EXP_OFFSET
    /\ num[4] % (FLOAT_HALF_LOSS + 1) = 0

_fmt_halffloat(enc, half) ==
    LET e1 == _incr_len(enc, 3)
        res == _fits(e1, 3)
    IN  [res |-> res,
         enc |-> IF res > 0
                 THEN _encoder_mem_append(
                          Asked(e1, res),
                          <<NANOCBOR_MASK_FLOAT + NANOCBOR_SIZE_SHORT,
                            half \div 256, half % 256>>)
                 ELSE Asked(e1, res)]

\* nanocbor_fmt_float; unum are the bits of num.  The exponent is shifted by
\* (uint8_t)(HALF_EXP_OFFSET - FLOAT_EXP_OFFSET) = 144 modulo 256, and
\* *unum >> 13 & HALF_FRAC_MASK are the upper 10 bits of the fraction
nanocbor_fmt_float(enc, unum) ==
    LET exp == (unum[3] \div 128) % 256 IN
    IF _single_is_inf_nan(exp) \/ _single_is_zero(unum) \/ _single_in_range(exp, unum)
    THEN LET sign == (unum[3] \div 32768) * 32768
             hexp == IF exp # FLOAT_EXP_IS_NAN /\ exp # 0
                     THEN (exp + 144) % 256 ELSE exp
             frac == ((unum[3] % 128) * 8 + unum[4] \div 8192) % 1024
         IN  _fmt_halffloat(enc, sign + (hexp % 32) * 1024 + frac)
    ELSE LET e1 == _incr_len(enc, 5)
             res == _fits(e1, 5)
         IN  [res |-> res,
              enc |-> IF res > 0
                      THEN _encoder_mem_append(
                               _encoder_mem_append(
                                   Asked(e1, res),
                                   <<NANOCBOR_MASK_FLOAT + NANOCBOR_SIZE_WORD>>),
                               SubSeq(U64ToBytes(unum), 5, 8))
                      ELSE Asked(e1, res)]

_double_is_inf_nan(exp) == exp = DOUBLE_EXP_IS_NAN

\* (num & DOUBLE_IS_ZERO) == 0
_double_is_zero(num) ==
    num[1] % 32768 = 0 /\ num[2] = 0 /\ num[3] = 0 /\ num[4] = 0

\* num & DOUBLE_FLOAT_LOSS are the low 29 bits
_double_in_range(exp, num) ==
    /\ exp <= DOUBLE_EXP_OFFSET + FLOAT_EXP_OFFSET
    /\ exp >= DOUBLE_EXP_OFFSET - FLOAT_EXP_OFFSET + 1
    /\ (num[3] % 8192) * 65536 + num[4] = 0

\* nanocbor_fmt_double for a double of 64 bits; unum are the bits of num.
\* *unum >> 29 & FLOAT_FRAC_MASK are the upper 23 bits of the fraction
nanocbor_fmt_double(enc, unum) ==
    LET exp == (unum[1] \div 16) % 2048 IN
    IF _double_is_inf_nan(exp) \/ _double_is_zero(unum) \/ _double_in_range(exp, unum)
    THEN LET sign == unum[1] \div 32768
             sexp == IF exp # DOUBLE_EXP_IS_NAN /\ exp # 0
                     THEN (exp + FLOAT_EXP_OFFSET + 65536 - DOUBLE_EXP_OFFSET) % 65536
                     ELSE exp
             frac == (unum[1] % 16) * 524288 + unum[2] * 8 + unum[3] \div 8192
         IN  nanocbor_fmt_float(enc, SingleBits(sign, sexp % 256, frac))
    ELSE LET e1 == _incr_len(enc, 9)
             res == _fits(e1, 9)
         IN  [res |-> res,
              enc |-> IF res > 0
                      THEN _encoder_mem_append(
                               _encoder_mem_append(
                                   Asked(e1, res),
                                   <<NANOCBOR_MASK_FLOAT + NANOCBOR_SIZE_LONG>>),
                               U64ToBytes(unum))
                      ELSE Asked(e1, res)]

\* e and m are int32_t, converted to the int64_t of nanocbor_fmt_int
nanocbor_fmt_decimal_frac(enc, e, m) ==
    LET t == nanocbor_fmt_tag(enc, U64(NANOCBOR_TAG_DEC_FRAC))
        a == nanocbor_fmt_array(t.enc, U64(2))
        x == nanocbor_fmt_int(a.enc, e)
        y == nanocbor_fmt_int(x.enc, m)
    IN  [res |-> t.res + a.res + x.res + y.res, enc |-> y.enc]

(***************************************************************************)
(* Integers formatted by the encoder and read back by the decoder, and     *)
(* integers in encodings the encoder does not produce                      *)
(***************************************************************************)
\* the room the encoder is given: none, and enough for the longest integer
EncBufLen == 9

BufLens == {0, EncBufLen}

INT64_MIN == <<32768, 0, 0, 0>>

\* values around the limits of the widths of 8, 16, 32 and 64 bits
UintValues ==
    {U64(0), U64(23), U64(24), U64(127), U64(128), UINT8_MAX, U64(256),
     U64(32767), U64(32768), UINT16_MAX, <<0, 0, 1, 0>>,
     INT32_MAX, <<0, 0, 32768, 0>>, UINT32_MAX, <<0, 0, 32768, 1>>, <<0, 1, 0, 0>>,
     INT64_MAX, INT64_MIN, UINT64_MAX}

\* the same values and the negative numbers -1 - u
IntValues ==
    (UintValues \ {INT64_MIN, UINT64_MAX})
        \cup {<<65535 - u[1], 65535 - u[2], 65535 - u[3], 65535 - u[4]>> :
                  u \in UintValues \ {INT64_MIN, UINT64_MAX}}

\* integers in longer encodings than needed, with a head that is cut short,
\* negative integers beyond int64_t, and items of the other major types
IntVectors == {
    <<24, 1>>, <<25, 0, 1>>, <<26, 0, 0, 0, 1>>, <<27, 0, 0, 0, 0, 0, 0, 0, 1>>,
    <<56, 1>>, <<57, 0, 128>>, <<58, 0, 0, 128, 0>>,
    <<25, 1>>, <<28>>, <<31>>,
    <<59, 128, 0, 0, 0, 0, 0, 0, 0>>,
    <<59, 255, 255, 255, 255, 255, 255, 255, 255>>,
    <<65, 1>>, <<97, 97>>, <<128>>, <<160>>, <<193, 1>>, <<244>>, <<249, 60, 0>>,
    <<224>>, <<198, 0>>, <<216, 113, 130, 129, 1, 224>>
}

InitInt ==
    /\ buf \in {<<>>} \cup IntVectors
    /\ \E g \in Garbage, packed \in BOOLEAN :
          stack = << IF packed
                     THEN nanocbor_decoder_init_packed(0, Len(buf), g)
                     ELSE nanocbor_decoder_init(Len(buf), g) >>
    /\ prev = stack
    /\ last = [op |-> "init", res |-> NANOCBOR_OK, out |-> Zero64]
    /\ hung = FALSE
    /\ encs = <<>>

\* nanocbor_encoder_init over an empty buffer of len bytes, one formatter
\* call r, and a decoder initialised over the bytes written
Fmt(op, v, r) ==
    /\ buf = <<>>
    /\ last.op = "init"
    /\ buf' = r.enc.out
    /\ \E g \in Garbage, packed \in BOOLEAN :
          stack' = << IF packed
                      THEN nanocbor_decoder_init_packed(0, r.enc.cur, g)
                      ELSE nanocbor_decoder_init(r.enc.cur, g) >>
    /\ prev' = stack'
    /\ last' = [op |-> op, res |-> r.res,
                out |-> [num |-> v, len |-> nanocbor_encoded_len(r.enc)]]
    /\ hung' = FALSE
    /\ UNCHANGED encs

FmtUint ==
    \E v \in UintValues, len \in BufLens :
        Fmt("fmt_uint", v, nanocbor_fmt_uint(nanocbor_encoder_init(len), v))

FmtInt ==
    \E v \in IntValues, len \in BufLens :
        Fmt("fmt_int", v, nanocbor_fmt_int(nanocbor_encoder_init(len), v))

\* the boundaries of the head sizes, as the argument of the other heads
HeadValues ==
    {U64(0), U64(23), U64(24), UINT8_MAX, U64(256), UINT16_MAX, <<0, 0, 1, 0>>,
     UINT32_MAX, <<0, 1, 0, 0>>, UINT64_MAX}

FmtTag ==
    \E v \in HeadValues, len \in BufLens :
        Fmt("fmt_tag", v, nanocbor_fmt_tag(nanocbor_encoder_init(len), v))

FmtBstr ==
    \E v \in HeadValues, len \in BufLens :
        Fmt("fmt_bstr", v, nanocbor_fmt_bstr(nanocbor_encoder_init(len), v))

FmtTstr ==
    \E v \in HeadValues, len \in BufLens :
        Fmt("fmt_tstr", v, nanocbor_fmt_tstr(nanocbor_encoder_init(len), v))

FmtArray ==
    \E v \in HeadValues, len \in BufLens :
        Fmt("fmt_array", v, nanocbor_fmt_array(nanocbor_encoder_init(len), v))

FmtMap ==
    \E v \in HeadValues, len \in BufLens :
        Fmt("fmt_map", v, nanocbor_fmt_map(nanocbor_encoder_init(len), v))

\* floats: +-0, +-infinity, NaNs with the payload in the upper and in the
\* lowest bit, 1, -1, 1.5, 0.34, 1 + 2^-10, 1 + 2^-11, 2^-14, 2^-15, 65504,
\* 65536, the least subnormal and the largest float
SingleValues ==
    {<<0, 0, 0, 0>>, <<0, 0, 32768, 0>>, <<0, 0, 32640, 0>>, <<0, 0, 65408, 0>>,
     <<0, 0, 32704, 0>>, <<0, 0, 32640, 1>>, <<0, 0, 65408, 8192>>,
     <<0, 0, 16256, 0>>, <<0, 0, 49024, 0>>, <<0, 0, 16320, 0>>,
     <<0, 0, 16046, 5243>>, <<0, 0, 16256, 8192>>, <<0, 0, 16256, 4096>>,
     <<0, 0, 14464, 0>>, <<0, 0, 14336, 0>>, <<0, 0, 18303, 57344>>,
     <<0, 0, 18304, 0>>, <<0, 0, 0, 1>>, <<0, 0, 32639, 65535>>}

\* doubles: +-0, +-infinity, NaNs with the payload in the upper and in the
\* lowest bit, 1, -1.5, 0.1, 1 + 2^-23, 1 + 2^-24, 65504, the largest float,
\* 2^128, 2^-126, 2^-127, the least subnormal and the largest double
DoubleValues ==
    {<<0, 0, 0, 0>>, <<32768, 0, 0, 0>>, <<32752, 0, 0, 0>>, <<65520, 0, 0, 0>>,
     <<32760, 0, 0, 0>>, <<32752, 0, 0, 1>>, <<65520, 0, 8192, 0>>,
     <<16368, 0, 0, 0>>, <<49144, 0, 0, 0>>, <<16313, 39321, 39321, 39322>>,
     <<16368, 0, 8192, 0>>, <<16368, 0, 4096, 0>>, <<16623, 64512, 0, 0>>,
     <<18415, 65535, 57344, 0>>, <<18416, 0, 0, 0>>, <<14352, 0, 0, 0>>,
     <<14336, 0, 0, 0>>, <<0, 0, 0, 1>>, <<32751, 65535, 65535, 65535>>}

FmtFloat ==
    \E v \in SingleValues, len \in BufLens :
        Fmt("fmt_float", v, nanocbor_fmt_float(nanocbor_encoder_init(len), v))

FmtDouble ==
    \E v \in DoubleValues, len \in BufLens :
        Fmt("fmt_double", v, nanocbor_fmt_double(nanocbor_encoder_init(len), v))

NextInt ==
    \/ FmtUint \/ FmtInt \/ FmtTag \/ FmtBstr \/ FmtTstr \/ FmtArray \/ FmtMap
    \/ FmtFloat \/ FmtDouble
    \/ GetUint8 \/ GetUint16 \/ GetUint32 \/ GetUint64
    \/ GetInt8 \/ GetInt16 \/ GetInt32 \/ GetInt64
    \/ GetFloat \/ GetDouble

SpecInt == InitInt /\ [][NextInt]_vars

(***************************************************************************)
(* Sequences of formatter calls.  The same calls are made on encoders      *)
(* that differ in the length of their buffer only; the encoder with the    *)
(* length 0 is the one of nanocbor_encoder_init(enc, NULL, 0).  For each   *)
(* encoder: enc, the encoder before the last call, the result of the last  *)
(* call, and the numbers of calls made and of calls that returned < 0.     *)
(***************************************************************************)
MaxCalls == 2

Caps == 0 .. MaxCalls * EncBufLen

InitEnc ==
    /\ encs = [c \in Caps |->
                  [enc |-> nanocbor_encoder_init(c),
                   before |-> nanocbor_encoder_init(c),
                   res |-> NANOCBOR_OK, failed |-> 0, calls |-> 0]]
    /\ last = [op |-> "init", res |-> NANOCBOR_OK, out |-> Zero64]
    /\ buf = <<>>
    /\ stack = <<>>
    /\ prev = <<>>
    /\ hung = FALSE

\* the formatter call F on every encoder
Enc(op, args, F(_)) ==
    /\ encs[0].calls < MaxCalls
    /\ encs' = [c \in Caps |->
                   Only({ [enc |-> r.enc, before |-> encs[c].enc, res |-> r.res,
                           failed |-> encs[c].failed + IF r.res < 0 THEN 1 ELSE 0,
                           calls |-> encs[c].calls + 1] :
                          r \in {F(encs[c].enc)} })]
    /\ last' = [op |-> op, res |-> NANOCBOR_OK, out |-> args]
    /\ UNCHANGED <<buf, stack, prev, hung>>

EncUint ==
    \E num \in {U64(0), U64(24)} :
        Enc("fmt_uint", [num |-> num], LAMBDA e : nanocbor_fmt_uint(e, num))

EncInt ==
    \E num \in {UINT64_MAX, U64(256)} :
        Enc("fmt_int", [num |-> num], LAMBDA e : nanocbor_fmt_int(e, num))

EncTag ==
    \E num \in {U64(55)} :
        Enc("fmt_tag", [num |-> num], LAMBDA e : nanocbor_fmt_tag(e, num))

EncBstr ==
    \E len \in {U64(3)} :
        Enc("fmt_bstr", [num |-> len], LAMBDA e : nanocbor_fmt_bstr(e, len))

EncTstr ==
    \E len \in {U64(24)} :
        Enc("fmt_tstr", [num |-> len], LAMBDA e : nanocbor_fmt_tstr(e, len))

EncArray ==
    \E len \in {U64(2)} :
        Enc("fmt_array", [num |-> len], LAMBDA e : nanocbor_fmt_array(e, len))

EncMap ==
    \E len \in {U64(4)} :
        Enc("fmt_map", [num |-> len], LAMBDA e : nanocbor_fmt_map(e, len))

EncBool ==
    \E content \in BOOLEAN :
        Enc("fmt_bool", [content |-> content],
            LAMBDA e : nanocbor_fmt_bool(e, content))

EncNull == Enc("fmt_null", Zero64, LAMBDA e : nanocbor_fmt_null(e))

\* the values nanocbor_fmt_simple accepts
EncSimple ==
    \E value \in {19, 32} :
        Enc("fmt_simple", [value |-> value],
            LAMBDA e : nanocbor_fmt_simple(e, value))

EncArrayIndefinite ==
    Enc("fmt_array_indefinite", Zero64,
        LAMBDA e : nanocbor_fmt_array_indefinite(e))

EncMapIndefinite ==
    Enc("fmt_map_indefinite", Zero64, LAMBDA e : nanocbor_fmt_map_indefinite(e))

EncEndIndefinite ==
    Enc("fmt_end_indefinite", Zero64, LAMBDA e : nanocbor_fmt_end_indefinite(e))

\* strings of 0, 1 and 2 bytes
Strings == {<<>>, <<97>>, <<97, 98>>}

EncPutBstr ==
    \E str \in Strings :
        Enc("put_bstr", [str |-> str],
            LAMBDA e : nanocbor_put_bstr(e, str, Len(str)))

EncPutTstr ==
    \E str \in Strings :
        Enc("put_tstr", [str |-> str], LAMBDA e : nanocbor_put_tstr(e, str))

\* the first len bytes of a string of 2 bytes
EncPutTstrn ==
    \E len \in {0, 1} :
        Enc("put_tstrn", [str |-> SubSeq(<<97, 98>>, 1, len)],
            LAMBDA e : nanocbor_put_tstrn(e, <<97, 98>>, len))

\* 1.0 is written as a half, 0.34 as a float
EncFloat ==
    \E num \in {<<0, 0, 16256, 0>>, <<0, 0, 16046, 5243>>} :
        Enc("fmt_float", [num |-> num], LAMBDA e : nanocbor_fmt_float(e, num))

\* 0.1 is written as a double, 1 + 2^-23 as a float
EncDouble ==
    \E num \in {<<16313, 39321, 39321, 39322>>, <<16368, 0, 8192, 0>>} :
        Enc("fmt_double", [num |-> num], LAMBDA e : nanocbor_fmt_double(e, num))

\* 0 * 10^0, 27315 * 10^-2, (2^31 - 1) * 10^1 and 1 * 10^-32769
DecimalFracs ==
    {[e |-> U64(0), m |-> U64(0)],
     [e |-> <<65535, 65535, 65535, 65534>>, m |-> U64(27315)],
     [e |-> U64(1), m |-> INT32_MAX],
     [e |-> <<65535, 65535, 65535, 32767>>, m |-> U64(1)]}

EncDecimalFrac ==
    \E d \in DecimalFracs :
        Enc("fmt_decimal_frac", d,
            LAMBDA e : nanocbor_fmt_decimal_frac(e, d.e, d.m))

NextEnc ==
    \/ EncUint \/ EncInt \/ EncTag \/ EncBstr \/ EncTstr \/ EncArray \/ EncMap
    \/ EncBool \/ EncNull \/ EncSimple
    \/ EncArrayIndefinite \/ EncMapIndefinite \/ EncEndIndefinite
    \/ EncPutBstr \/ EncPutTstr \/ EncPutTstrn
    \/ EncFloat \/ EncDouble \/ EncDecimalFrac

SpecEnc == InitEnc /\ [][NextEnc]_vars




(***************************************************************************)
(* RFC 8949 well-formedness, used to state what the input holds            *)
(* independently of the decoder: the end of the data item that starts at   *)
(* offset p and lies inside [p, lim), or -1 when there is none.            *)
(***************************************************************************)
WfHeadLen(p, lim) ==
    IF p >= lim THEN -1
    ELSE LET ai == Byte(p) % 32 IN
         IF ai < 24 \/ ai = 31 THEN 1
         ELSE IF ai > 27 THEN -1
         ELSE IF p + 1 + Pow2(ai - 24) > lim THEN -1
         ELSE 1 + Pow2(ai - 24)

WfArg(p) ==
    LET ai == Byte(p) % 32 IN
    IF ai < 24 THEN U64(ai) ELSE BytesToU64(Bytes(p + 1, Pow2(ai - 24)))

RECURSIVE WfItemEnd(_, _)
RECURSIVE WfItemsEnd(_, _, _)
RECURSIVE WfUntilBreak(_, _, _, _)

\* n items in a row from p (n < 0: not representable)
WfItemsEnd(p, n, lim) ==
    IF n = 0 THEN p
    ELSE LET e == WfItemEnd(p, lim) IN
         IF e < 0 THEN -1 ELSE WfItemsEnd(e, n - 1, lim)

\* items up to the break byte; chunk is the major type the items must have
\* (-1: any), count the number seen so far, even says the count must be even
WfUntilBreak(p, chunk, lim, parity) ==
    IF p >= lim THEN -1
    ELSE IF Byte(p) = 255 THEN (IF parity = 1 THEN -1 ELSE p + 1)
    ELSE IF chunk >= 0 /\ (Byte(p) \div 32 # chunk \/ Byte(p) % 32 = 31) THEN -1
    ELSE LET e == WfItemEnd(p, lim) IN
         IF e < 0 THEN -1
         ELSE WfUntilBreak(e, chunk, lim, IF parity < 0 THEN -1 ELSE 1 - parity)

WfItemEnd(p, lim) ==
    LET h == WfHeadLen(p, lim) IN
    IF h < 0 THEN -1
    ELSE
    LET mt == Byte(p) \div 32
        ai == Byte(p) % 32
        arg == WfArg(p)
    IN  IF ai = 31
        THEN IF mt \in {2, 3} THEN WfUntilBreak(p + 1, mt, lim, -1)
             ELSE IF mt = 4 THEN WfUntilBreak(p + 1, -1, lim, -1)
             ELSE IF mt = 5 THEN WfUntilBreak(p + 1, -1, lim, 0)
             ELSE -1
        ELSE IF mt \in {0, 1} THEN p + h
        ELSE IF mt = 7 THEN (IF ai = 24 /\ Byte(p + 1) < 32 THEN -1 ELSE p + h)
        ELSE IF mt = 6 THEN WfItemEnd(p + h, lim)
        ELSE IF ~U64Small(arg) \/ U64ToNat(arg) > lim THEN -1
        ELSE IF mt \in {2, 3}
        THEN (IF p + h + U64ToNat(arg) > lim THEN -1 ELSE p + h + U64ToNat(arg))
        ELSE IF mt = 4 THEN WfItemsEnd(p + h, U64ToNat(arg), lim)
        ELSE WfItemsEnd(p + h, 2 * U64ToNat(arg), lim)

\* the offsets at which the top-level items of a well-formed input start,
\* followed by the end of the input; <<>> when the input is not well-formed
RECURSIVE WfStarts(_)
WfStarts(p) ==
    IF p = Len(buf) THEN <<p>>
    ELSE LET e == WfItemEnd(p, Len(buf)) IN
         IF e < 0 THEN <<>>
         ELSE LET rest == WfStarts(e) IN
              IF rest = <<>> THEN <<>> ELSE <<p>> \o rest

WellFormed == WfStarts(0) # <<>>

\* the number of arrays, maps and tags around the most deeply nested item of
\* the well-formed item at p
RECURSIVE WfNest(_)
RECURSIVE WfNestItems(_, _)
WfNestItems(p, end) ==
    IF p >= end \/ Byte(p) = 255 THEN 0
    ELSE LET e == WfItemEnd(p, Len(buf))
             rest == WfNestItems(e, end)
             here == 1 + WfNest(p)
         IN  IF here > rest THEN here ELSE rest

WfNest(p) ==
    LET mt == Byte(p) \div 32
        h == WfHeadLen(p, Len(buf))
    IN  IF mt = 6 THEN 1 + WfNest(p + h)
        ELSE IF mt \in {4, 5} THEN WfNestItems(p + h, WfItemEnd(p, Len(buf)))
        ELSE 0

(***************************************************************************)
(* What the claims speak about                                             *)
(***************************************************************************)
\* the cursor the last call was applied to, before and after the call
Before == prev[Len(prev)]

After == stack[Len(prev)]

Packed == FLAG_PACKED_SUPPORT \in stack[1].flags

GetterOps ==
    {"get_uint8", "get_uint16", "get_uint32", "get_uint64",
     "get_int8", "get_int16", "get_int32", "get_int64",
     "get_tag", "get_bstr", "get_tstr", "get_null", "get_undefined",
     "get_bool", "get_simple", "get_float", "get_double"}

\* the cursor c stands on a string head of the given major type whose
\* declared length is larger than the number of bytes that follow the head
DeclaredTooLong(c, type) ==
    /\ ~nanocbor_at_end(c)
    /\ c.cur < c.end
    /\ Byte(c.cur) \div 32 = type
    /\ Byte(c.cur) % 32 # NANOCBOR_SIZE_INDEFINITE
    /\ WfHeadLen(c.cur, c.end) > 0
    /\ U64Gt(WfArg(c.cur), U64(c.end - c.cur - WfHeadLen(c.cur, c.end)))

\* C1: when nanocbor_get_bstr or nanocbor_get_tstr returns NANOCBOR_OK the
\* slice it hands out lies inside the cursor's input range (buf + len <= end),
\* and a string whose declared length exceeds the bytes remaining after its
\* head makes the call return NANOCBOR_ERR_END.
C1_StringInsideInput ==
    /\ (last.op \in {"get_bstr", "get_tstr"} /\ ~hung /\ last.res = NANOCBOR_OK)
          => last.out.buf + U64ToNat(last.out.len) <= Before.end
    /\ (last.op = "get_bstr" /\ DeclaredTooLong(Before, NANOCBOR_TYPE_BSTR))
          => last.res = NANOCBOR_ERR_END
    /\ (last.op = "get_tstr" /\ DeclaredTooLong(Before, NANOCBOR_TYPE_TSTR))
          => last.res = NANOCBOR_ERR_END

\* C2: nanocbor_skip terminates on every input: no iteration of the container
\* loop of _skip_limited leaves the child cursor where it was and continues.
C2_SkipTerminates == ~(hung /\ last.op = "skip")

\* C3: after every successful decoder call every cursor satisfies
\* start <= cur <= end.
C3_CursorInRange ==
    (last.op # "init" /\ ~hung /\ last.res >= 0)
        => \A i \in DOMAIN stack : 0 <= stack[i].cur /\ stack[i].cur <= stack[i].end

\* C4: on a well-formed input of n top-level items decoded without packed
\* support, the k-th nanocbor_skip returns NANOCBOR_OK and moves the cursor
\* from the start of item k to the start of item k + 1, and nanocbor_at_end
\* becomes true after exactly the n-th skip.  Stated for the inputs that stay
\* below the nesting limit of nanocbor_skip.
C4_SkipReachesEnd ==
    (/\ last.op = "skip" /\ ~Packed /\ Len(prev) = 1 /\ WellFormed
     /\ \A k \in 1 .. Len(WfStarts(0)) - 1 :
            WfNest(WfStarts(0)[k]) < NANOCBOR_RECURSION_MAX)
        => LET starts == WfStarts(0) IN
           \A k \in 1 .. Len(starts) - 1 :
               Before.cur = starts[k]
                   => /\ ~hung
                      /\ last.res = NANOCBOR_OK
                      /\ After.cur = starts[k + 1]
                      /\ nanocbor_at_end(After) <=> (k + 1 = Len(starts))

\* C5: once nanocbor_at_end is true for a cursor, every getter,
\* nanocbor_enter_array, nanocbor_enter_map, nanocbor_skip and
\* nanocbor_skip_simple returns NANOCBOR_ERR_END and leaves the cursor's
\* position and remaining count as they were.
C5_AtEndRefuses ==
    (/\ last.op \in GetterOps \cup {"enter_array", "enter_map", "skip", "skip_simple"}
     /\ nanocbor_at_end(Before))
        => /\ ~hung
           /\ last.res = NANOCBOR_ERR_END
           /\ After.cur = Before.cur
           /\ After.remaining = Before.remaining

\* C6: nanocbor_skip returns NANOCBOR_ERR_RECURSION whenever the item under
\* the cursor nests arrays, maps and tags more deeply than
\* NANOCBOR_RECURSION_MAX levels.
C6_SkipRecursionLimit ==
    (/\ last.op = "skip"
     /\ ~Packed
     /\ Before.cur < Before.end
     /\ ~nanocbor_at_end(Before)
     /\ WfItemEnd(Before.cur, Before.end) > 0
     /\ WfNest(Before.cur) > NANOCBOR_RECURSION_MAX)
        => ~hung /\ last.res = NANOCBOR_ERR_RECURSION

(***************************************************************************)
(* Maps and packed references as the input defines them                    *)
(***************************************************************************)
\* the key and value offsets of the pairs found from p up to end
RECURSIVE WfPairs(_, _)
WfPairs(p, end) ==
    IF p >= end \/ Byte(p) = 255 THEN <<>>
    ELSE LET v == WfItemEnd(p, end) IN
         IF v < 0 \/ v >= end THEN <<>>
         ELSE LET e == WfItemEnd(v, end) IN
              IF e < 0 THEN <<>>
              ELSE <<[k |-> p, v |-> v]>> \o WfPairs(e, end)

\* the item at k is the definite-length text string key
KeyIs(k, key) ==
    /\ Byte(k) \div 32 = NANOCBOR_TYPE_TSTR
    /\ Byte(k) % 32 # NANOCBOR_SIZE_INDEFINITE
    /\ U64Small(WfArg(k))
    /\ U64ToNat(WfArg(k)) = Len(key)
    /\ Bytes(k + WfHeadLen(k, Len(buf)), Len(key)) = key

\* the offsets of the elements of the well-formed array whose head is at a
RECURSIVE WfElems(_, _)
WfElems(p, end) ==
    IF p >= end \/ Byte(p) = 255 THEN <<>>
    ELSE <<p>> \o WfElems(WfItemEnd(p, end), end)

PkElems(a) == WfElems(a + WfHeadLen(a, Len(buf)), WfItemEnd(a, Len(buf)))

\* the reference index encoded by the item at p: simple(v) is v, tag 6 of a
\* non-negative n is 16 + 2n, tag 6 of a negative -1-u is 16 + 2u + 1; -1 when
\* the item is no reference
PkIndex(p, lim) ==
    IF p >= lim THEN -1
    ELSE IF Byte(p) >= 224 /\ Byte(p) <= 239 THEN Byte(p) - 224
    ELSE IF Byte(p) = 192 + NANOCBOR_TAG_PACKED_REF_SHARED
            /\ p + 1 < lim
            /\ Byte(p + 1) \div 32 \in {NANOCBOR_TYPE_UINT, NANOCBOR_TYPE_NINT}
            /\ WfHeadLen(p + 1, lim) > 0
            /\ U64Small(WfArg(p + 1))
    THEN 16 + 2 * U64ToNat(WfArg(p + 1)) + (Byte(p + 1) \div 32)
    ELSE -1

IsTableDefinition(p, lim) ==
    /\ p + 3 < lim
    /\ Byte(p) = 216
    /\ Byte(p + 1) = NANOCBOR_TAG_PACKED_TABLE
    /\ Byte(p + 2) = 130
    /\ Byte(p + 3) \div 32 = NANOCBOR_TYPE_ARR

PackedItem(c) ==
    /\ c.cur < c.end
    /\ \/ PkIndex(c.cur, c.end) >= 0
       \/ IsTableDefinition(c.cur, c.end)

\* element i of the concatenation of the tables T[j], T[j-1], ..., T[1]
RECURSIVE PkLookup(_, _, _)
PkLookup(T, j, i) ==
    IF j = 0 THEN [j |-> 0, pos |-> 0]
    ELSE LET elems == PkElems(T[j]) IN
         IF i < Len(elems) THEN [j |-> j, pos |-> elems[i + 1]]
         ELSE PkLookup(T, j - 1, i - Len(elems))

\* what the item at p stands for under the tables T (offsets of table arrays,
\* oldest first): the plain item it resolves to, "cycle" when the references
\* come back to where they were, "undefined" when an index is outside the
\* tables, "other" for what is not followed here
RECURSIVE PkResolve(_, _, _, _)
PkResolve(p, lim, T, seen) ==
    IF <<p, T>> \in seen THEN [kind |-> "cycle", pos |-> p]
    ELSE IF p >= lim \/ WfItemEnd(p, lim) < 0 THEN [kind |-> "other", pos |-> p]
    ELSE IF IsTableDefinition(p, lim)
    THEN LET a == p + 3
             r == WfItemEnd(a, lim)
         IN  IF Len(T) >= NANOCBOR_DECODE_PACKED_NESTED_TABLES_MAX
             THEN [kind |-> "other", pos |-> p]
             ELSE PkResolve(r, WfItemEnd(r, lim), Append(T, a), seen \cup {<<p, T>>})
    ELSE LET i == PkIndex(p, lim) IN
         IF i < 0 THEN [kind |-> "item", pos |-> p]
         ELSE LET hit == PkLookup(T, Len(T), i) IN
              IF hit.j = 0 THEN [kind |-> "undefined", pos |-> p]
              ELSE PkResolve(hit.pos, WfItemEnd(T[hit.j], Len(buf)),
                             SubSeq(T, 1, hit.j), seen \cup {<<p, T>>})

\* the active tables of a cursor, and what its current item stands for
TablesOf(c) == [j \in DOMAIN c.tables |-> c.tables[j].start]

Resolved(c) == PkResolve(c.cur, c.end, TablesOf(c), {})

OnPackedItem(c) ==
    /\ FLAG_PACKED_SUPPORT \in c.flags
    /\ ~nanocbor_at_end(c)
    /\ PackedItem(c)
    /\ WfItemEnd(c.cur, c.end) > 0

\* C7: for a cursor at a key of a well-formed map read without packed
\* support, nanocbor_get_key_tstr returns NANOCBOR_OK exactly when one of the
\* remaining keys is a text string equal to the key, leaving value at the
\* value of such a key; when no key matches it returns a negative code; start
\* is not modified.
C7_KeyLookup ==
    (/\ last.op = "get_key_tstr"
     /\ ~Packed
     /\ Len(prev) >= 2
     /\ Byte(prev[Len(prev) - 1].cur) \div 32 = NANOCBOR_TYPE_MAP
     /\ WfItemEnd(prev[Len(prev) - 1].cur, Len(buf)) > 0)
        => LET head == prev[Len(prev) - 1].cur
               mapEnd == WfItemEnd(head, Len(buf))
               all == WfPairs(head + WfHeadLen(head, Len(buf)), mapEnd)
               pairs == WfPairs(Before.cur, mapEnd)
               hits == {i \in DOMAIN pairs : KeyIs(pairs[i].k, last.out.key)}
           IN  (\E i \in DOMAIN all : all[i].k = Before.cur \/ nanocbor_at_end(Before))
                   => /\ ~hung
                      /\ (last.res = NANOCBOR_OK) <=> (hits # {})
                      /\ hits # {} => \E i \in hits : last.out.value.cur = pairs[i].v
                      /\ hits = {} => last.res < 0
                      /\ After = Before

\* C8: with packed support, a getter that succeeds on a packed item (a
\* reference or a table definition) leaves the caller's cursor just past that
\* one item and leaves the cursor's table stack as it was.
C8_PackedGetterAdvances ==
    (/\ last.op \in GetterOps
     /\ ~hung
     /\ last.res >= 0
     /\ OnPackedItem(Before))
        => /\ After.cur = WfItemEnd(Before.cur, Before.end)
           /\ After.tables = Before.tables

\* C9: when the references under the cursor form a cycle, every getter,
\* nanocbor_get_type, nanocbor_enter_array and nanocbor_enter_map returns
\* NANOCBOR_ERR_RECURSION and leaves the cursor unchanged, and nanocbor_skip
\* on that cursor returns NANOCBOR_OK.
C9_CycleIsRecursion ==
    (OnPackedItem(Before) /\ Resolved(Before).kind = "cycle")
        => /\ last.op \in GetterOps \cup {"get_type", "enter_array", "enter_map"}
               => /\ ~hung
                  /\ last.res = NANOCBOR_ERR_RECURSION
                  /\ After = Before
           /\ last.op = "skip" => ~hung /\ last.res = NANOCBOR_OK

\* C10: a reference resolves to the element its index selects in the
\* concatenation of the active tables, newest first: nanocbor_get_bool and
\* nanocbor_get_null on a packed item return the value of the item it stands
\* for.
C10_ReferenceIndexing ==
    (/\ last.op \in {"get_bool", "get_null"}
     /\ OnPackedItem(Before)
     /\ Resolved(Before).kind = "item")
        => LET b == Byte(Resolved(Before).pos) IN
           /\ ~hung
           /\ (last.op = "get_bool" /\ b \in {244, 245})
                 => last.res = NANOCBOR_OK /\ last.out = (b = 245)
           /\ (last.op = "get_null" /\ b = 246) => last.res = NANOCBOR_OK

(***************************************************************************)
(* Containers entered through packed items                                 *)
(***************************************************************************)
\* the tables in force at the item PkResolve arrives at (offsets of the table
\* arrays, oldest first)
RECURSIVE PkTablesAt(_, _, _, _)
PkTablesAt(p, lim, T, seen) ==
    IF <<p, T>> \in seen THEN T
    ELSE IF p >= lim \/ WfItemEnd(p, lim) < 0 THEN T
    ELSE IF IsTableDefinition(p, lim)
    THEN LET a == p + 3
             r == WfItemEnd(a, lim)
         IN  IF Len(T) >= NANOCBOR_DECODE_PACKED_NESTED_TABLES_MAX THEN T
             ELSE PkTablesAt(r, WfItemEnd(r, lim), Append(T, a), seen \cup {<<p, T>>})
    ELSE LET i == PkIndex(p, lim) IN
         IF i < 0 THEN T
         ELSE LET hit == PkLookup(T, Len(T), i) IN
              IF hit.j = 0 THEN T
              ELSE PkTablesAt(hit.pos, WfItemEnd(T[hit.j], Len(buf)),
                              SubSeq(T, 1, hit.j), seen \cup {<<p, T>>})

\* the last call entered a container from the cursor Before
Entered ==
    /\ last.op \in {"enter_array", "enter_map"}
    /\ ~hung
    /\ last.res = NANOCBOR_OK
    /\ Len(stack) = Len(prev) + 1

Child == stack[Len(stack)]

\* the last call was nanocbor_leave_container(Parent, Left)
Leaving == last.op = "leave_container" /\ Len(prev) >= 2

Parent == prev[Len(prev) - 1]

Left == prev[Len(prev)]

ParentAfter == stack[Len(prev) - 1]

\* cursor c counts the items of a definite-length container
InDefinite(c) == FLAG_CONTAINER \in c.flags /\ FLAG_INDEFINITE \notin c.flags

OnTag(c, n) ==
    /\ ~nanocbor_at_end(c)
    /\ c.cur < c.end
    /\ Byte(c.cur) \div 32 = NANOCBOR_TYPE_TAG
    /\ Byte(c.cur) % 32 <= NANOCBOR_SIZE_WORD
    /\ WfHeadLen(c.cur, c.end) > 0
    /\ WfArg(c.cur) = U64(n)

\* the cursor c stands on one of the simple values 0..15
OnSimpleReference(c) ==
    /\ ~nanocbor_at_end(c)
    /\ c.cur < c.end
    /\ Byte(c.cur) \in 224..239

PackedTags == {NANOCBOR_TAG_PACKED_TABLE, NANOCBOR_TAG_PACKED_REF_SHARED}

RECURSIVE PkTotal(_, _)
PkTotal(T, j) == IF j = 0 THEN 0 ELSE Len(PkElems(T[j])) + PkTotal(T, j - 1)

\* the cursor c stands on a reference whose index none of its tables covers
OnUndefinedReference(c) ==
    /\ FLAG_PACKED_SUPPORT \in c.flags
    /\ ~nanocbor_at_end(c)
    /\ c.cur < c.end
    /\ PkIndex(c.cur, c.end) >= PkTotal(TablesOf(c), Len(c.tables))
    /\ PkIndex(c.cur, c.end) >= 0

\* the getters that run the resolver themselves return
\* NANOCBOR_ERR_PACKED_UNDEFINED_REFERENCE on an undefined reference and
\* leave the cursor as it was
C13_PrimitiveGetters ==
    (/\ last.op \in GetterOps
     /\ \/ OnUndefinedReference(Before)
        \/ OnPackedItem(Before) /\ Resolved(Before).kind = "undefined")
        => /\ ~hung
           /\ last.res = NANOCBOR_ERR_PACKED_UNDEFINED_REFERENCE
           /\ After = Before

\* C13: with packed support, every getter applied to a reference whose index
\* is not below the number of elements of all the active tables of the
\* cursor (in particular when there is no table) returns
\* NANOCBOR_ERR_PACKED_UNDEFINED_REFERENCE and leaves the cursor as it was.
C13_UndefinedReference ==
    (/\ last.op \in GetterOps \cup {"get_decimal_frac"}
     /\ OnUndefinedReference(Before))
        => /\ ~hung
           /\ last.res = NANOCBOR_ERR_PACKED_UNDEFINED_REFERENCE
           /\ After = Before


(***************************************************************************)
(* The number of active tables                                             *)
(***************************************************************************)
\* the number of table definitions nested as rumps of one another that the
\* item at p starts with
RECURSIVE PkNested(_, _)
PkNested(p, lim) ==
    IF p < lim /\ IsTableDefinition(p, lim) /\ WfItemEnd(p, lim) > 0
    THEN LET r == WfItemEnd(p + 3, lim) IN 1 + PkNested(r, WfItemEnd(r, lim))
    ELSE 0

\* the cursor c stands on table definitions that, installed one after the
\* other, exceed the number of tables a cursor can hold
OnOverfullDefinition(c) ==
    /\ FLAG_PACKED_SUPPORT \in c.flags
    /\ ~nanocbor_at_end(c)
    /\ c.cur < c.end
    /\ WfItemEnd(c.cur, c.end) > 0
    /\ Len(c.tables) + PkNested(c.cur, c.end)
           > NANOCBOR_DECODE_PACKED_NESTED_TABLES_MAX

C15_PlainItems ==
    (/\ last.op \in GetterOps \cup {"get_decimal_frac"}
     /\ ~hung
     /\ last.res >= 0
     /\ InDefinite(Before)
     /\ ~OnPackedItem(Before))
        => After.remaining = IF last.op = "get_tag" THEN Before.remaining
                             ELSE U64Dec(Before.remaining)

\* C15: for a cursor inside a definite-length container, every successful
\* getter (get_uint*, get_int*, get_tag, get_bstr, get_tstr, get_null,
\* get_undefined, get_bool, get_simple, get_float, get_double,
\* get_decimal_frac) decreases remaining by exactly one.
C15_RemainingDecreases ==
    (/\ last.op \in GetterOps \cup {"get_decimal_frac"}
     /\ ~hung
     /\ last.res >= 0
     /\ InDefinite(Before))
        => After.remaining = U64Dec(Before.remaining)

(***************************************************************************)
(* Indefinite-length containers                                            *)
(***************************************************************************)
\* the cursor c stands on the head of an indefinite-length array or map
OnIndefiniteHead(c) ==
    /\ ~nanocbor_at_end(c)
    /\ c.cur < c.end
    /\ Byte(c.cur) \in {NANOCBOR_TYPE_ARR * 32 + NANOCBOR_SIZE_INDEFINITE,
                        NANOCBOR_TYPE_MAP * 32 + NANOCBOR_SIZE_INDEFINITE}

\* c is at the break marker of its container or at the end of the input
AtBreak(c) == c.cur >= c.end \/ Byte(c.cur) = 255

\* what C16 asks of the entered cursors when the parent has packed support
\* or has none (packed), for reads at the break made by the getters ops
Indefinite(packed, ops) ==
    (Packed \in packed) =>
    /\ (Entered /\ OnIndefiniteHead(Before) /\ ~PackedItem(Before))
           => FLAG_INDEFINITE \in Child.flags
    /\ \A j \in 2..Len(stack) :
           FLAG_INDEFINITE \in stack[j].flags
               => /\ nanocbor_container_indefinite(stack[j])
                  /\ nanocbor_at_end(stack[j]) <=> AtBreak(stack[j])
    /\ (/\ Len(prev) > 1
        /\ FLAG_INDEFINITE \in Before.flags
        /\ ~PackedItem(Before))
           => /\ (last.op = "get_uint8" /\ ~AtBreak(Before) /\ Byte(Before.cur) < 24)
                     => ~hung /\ last.res = 1 /\ last.out = U64(Byte(Before.cur))
              /\ (last.op \in ops /\ AtBreak(Before))
                     => ~hung /\ last.res = NANOCBOR_ERR_END

\* without packed support the entered cursors behave as C16 says, for the
\* getters that ask nanocbor_at_end before they read
C16_WithoutPackedSupport ==
    Indefinite({FALSE}, GetterOps \ {"get_null", "get_undefined", "get_bool"})

\* C16: every cursor entered by nanocbor_enter_array or nanocbor_enter_map on
\* an indefinite-length head, with or without packed support, is reported
\* indefinite by nanocbor_container_indefinite and is at its end exactly when
\* cur >= end or the byte at cur is the break marker 0xFF: an element before
\* the break is read, a read at the break returns NANOCBOR_ERR_END.
C16_IndefiniteContainer == Indefinite(BOOLEAN, GetterOps)

(***************************************************************************)
(* Entering and leaving arrays and maps                                    *)
(***************************************************************************)
\* the cursor c stands on a well-formed array or map
OnContainer(c) ==
    /\ ~nanocbor_at_end(c)
    /\ c.cur < c.end
    /\ Byte(c.cur) \div 32 \in {NANOCBOR_TYPE_ARR, NANOCBOR_TYPE_MAP}
    /\ WfItemEnd(c.cur, c.end) > 0

\* C17: without packed support, nanocbor_enter_array and nanocbor_enter_map
\* on a well-formed array or map leave the parent as it was; when the child
\* is exhausted nanocbor_leave_container returns NANOCBOR_OK and the parent
\* stands on the first byte after the whole container (after the break byte
\* of an indefinite-length one), with remaining one less when the parent is
\* inside a definite-length container and nothing else changed.
C17_EnterLeave ==
    ~Packed =>
        /\ (last.op \in {"enter_array", "enter_map"} /\ OnContainer(Before))
               => ~hung /\ After = Before
        /\ (/\ Leaving
            /\ OnContainer(Parent)
            /\ nanocbor_in_container(Left)
            /\ nanocbor_at_end(Left))
               => /\ ~hung
                  /\ last.res = NANOCBOR_OK
                  /\ Len(stack) = Len(prev) - 1
                  /\ ParentAfter.cur = WfItemEnd(Parent.cur, Parent.end)
                  /\ ParentAfter.end = Parent.end
                  /\ ParentAfter.flags = Parent.flags
                  /\ InDefinite(Parent)
                         => ParentAfter.remaining = U64Dec(Parent.remaining)

\* the cursor child of a container entered at parent has consumed the
\* elements of the container and nothing else
AtContainerEnd(parent, child) ==
    child.cur = IF Byte(parent.cur) % 32 = NANOCBOR_SIZE_INDEFINITE
                THEN WfItemEnd(parent.cur, parent.end) - 1
                ELSE WfItemEnd(parent.cur, parent.end)

\* a child that is exhausted where the elements of its container end is left
\* as C17 says
C17_ElementsConsumed ==
    (/\ ~Packed
     /\ Leaving
     /\ OnContainer(Parent)
     /\ nanocbor_in_container(Left)
     /\ nanocbor_at_end(Left)
     /\ AtContainerEnd(Parent, Left))
        => /\ ~hung
           /\ last.res = NANOCBOR_OK
           /\ Len(stack) = Len(prev) - 1
           /\ ParentAfter.cur = WfItemEnd(Parent.cur, Parent.end)
           /\ ParentAfter.end = Parent.end
           /\ ParentAfter.flags = Parent.flags
           /\ InDefinite(Parent)
                  => ParentAfter.remaining = U64Dec(Parent.remaining)


(***************************************************************************)
(* Refused calls of nanocbor_leave_container                               *)
(***************************************************************************)
\* the arguments of the last call of nanocbor_leave_container
LeaveCalled == last.op \in {"leave_container", "leave_container_other"}

LeaveIt ==
    IF last.op = "leave_container" THEN prev[Len(prev) - 1] ELSE prev[Len(prev)]

LeaveChild ==
    IF last.op = "leave_container" THEN prev[Len(prev)]
    ELSE prev[last.out.container]

\* container.cur is strictly ahead of it.cur and not beyond it.end
Ahead(it, container) == container.cur > it.cur /\ container.cur <= it.end

UintGetterOps == {"get_uint8", "get_uint16", "get_uint32", "get_uint64"}

IntGetterOps == {"get_int8", "get_int16", "get_int32", "get_int64"}

\* the largest argument u the destination type of the getter holds: 2^N - 1
\* for uintN, and 2^(N-1) - 1 for intN (u, and -1 - u down to -2^(N-1))
DestMax(op) ==
    CASE op = "get_uint8" -> UINT8_MAX
      [] op = "get_uint16" -> UINT16_MAX
      [] op = "get_uint32" -> UINT32_MAX
      [] op = "get_uint64" -> UINT64_MAX
      [] op = "get_int8" -> INT8_MAX
      [] op = "get_int16" -> INT16_MAX
      [] op = "get_int32" -> INT32_MAX
      [] op = "get_int64" -> INT64_MAX

\* the major types the getter decodes
DestMajors(op) ==
    IF op \in UintGetterOps THEN {NANOCBOR_TYPE_UINT}
    ELSE {NANOCBOR_TYPE_UINT, NANOCBOR_TYPE_NINT}

\* the cursor c has an item, and a getter works on this very item: no
\* packed table definition or reference is resolved first
OnPlainItem(c) ==
    /\ ~nanocbor_at_end(c)
    /\ _packed_enabled(c) =>
           ~(\/ OnSimpleReference(c)
             \/ \E n \in PackedTags : OnTag(c, n))

\* the head at the cursor c is complete and has an argument
CompleteHead(c) ==
    /\ Byte(c.cur) % 32 <= NANOCBOR_SIZE_LONG
    /\ WfHeadLen(c.cur, c.end) > 0

\* the value of the integer item at c as the getter op puts it out
EncodedValue(op, c) ==
    IF op \in UintGetterOps THEN WfArg(c.cur)
    ELSE [neg |-> Byte(c.cur) \div 32 = NANOCBOR_TYPE_NINT, mag |-> WfArg(c.cur)]

\* C19: nanocbor_get_uintN on an unsigned item and nanocbor_get_intN on an
\* unsigned or negative item, when they succeed, put out exactly the encoded
\* value (u, or -1 - u for a negative integer with argument u), return the
\* encoded length of the item and advance by it; they return
\* NANOCBOR_ERR_INVALID_TYPE for an item of every other major type and
\* NANOCBOR_ERR_OVERFLOW whenever the encoded value does not fit the
\* destination type, never a truncated value.
C19_IntegerGetters ==
    (last.op \in UintGetterOps \cup IntGetterOps /\ OnPlainItem(Before))
        => /\ ~hung
           /\ last.res # NANOCBOR_OK
           /\ last.res > 0
                  => /\ Byte(Before.cur) \div 32 \in DestMajors(last.op)
                     /\ CompleteHead(Before)
                     /\ last.res = WfHeadLen(Before.cur, Before.end)
                     /\ last.out = EncodedValue(last.op, Before)
                     /\ After.cur = Before.cur + last.res
           /\ Byte(Before.cur) \div 32 \notin DestMajors(last.op)
                  => last.res = NANOCBOR_ERR_INVALID_TYPE
           /\ (/\ Byte(Before.cur) \div 32 \in DestMajors(last.op)
               /\ CompleteHead(Before)
               /\ U64Gt(WfArg(Before.cur), DestMax(last.op)))
                  => last.res = NANOCBOR_ERR_OVERFLOW

\* nanocbor_get_int16 has decoded 39 7f ff as -32768
C19_Witness ==
    /\ last.op = "get_int16"
    /\ buf = <<57, 127, 255>>
    /\ Before.cur = 0
    /\ last.res = 3
    /\ last.out = [neg |-> TRUE, mag |-> INT16_MAX]
    /\ nanocbor_at_end(After)

\* nanocbor_get_int8 has refused 18 80, which is 128
C19_Overflow ==
    /\ last.op = "get_int8"
    /\ buf = <<24, 128>>
    /\ Before.cur = 0
    /\ last.res = NANOCBOR_ERR_OVERFLOW
    /\ After = Before

(***************************************************************************)
(* Integers written by the encoder and read back by the decoder            *)
(***************************************************************************)
\* the bytes nanocbor_fmt_uint and nanocbor_fmt_int write for num into a
\* buffer of EncBufLen bytes, and the byte counts they return
FmtUintBytes(num) == nanocbor_fmt_uint(nanocbor_encoder_init(EncBufLen), num).enc.out

FmtUintRes(num) == nanocbor_fmt_uint(nanocbor_encoder_init(EncBufLen), num).res

FmtIntBytes(num) == nanocbor_fmt_int(nanocbor_encoder_init(EncBufLen), num).enc.out

FmtIntRes(num) == nanocbor_fmt_int(nanocbor_encoder_init(EncBufLen), num).res

\* the 64 bits of the int64_t that nanocbor_get_int64 puts out
Int64Bits(out) ==
    IF out.neg
    THEN <<65535 - out.mag[1], 65535 - out.mag[2],
           65535 - out.mag[3], 65535 - out.mag[4]>>
    ELSE out.mag

\* a decoder over exactly the bytes the formatter has written is read from
\* its start by the getter op
ReadBack(op, bytes) ==
    /\ last.op = op
    /\ buf = bytes
    /\ Len(prev) = 1
    /\ Before.cur = 0
    /\ Before.end = Len(bytes)

\* C20: nanocbor_fmt_uint(v) into a buffer that is large enough, followed by
\* nanocbor_get_uint64 over the bytes written, gives v, and the same holds
\* for nanocbor_fmt_int and nanocbor_get_int64, INT64_MIN and INT64_MAX
\* included; the formatter and the getter return the same byte count and
\* the decoder is at its end afterwards.
C20_RoundTrip ==
    /\ \A v \in UintValues :
           /\ FmtUintRes(v) = Len(FmtUintBytes(v))
           /\ ReadBack("get_uint64", FmtUintBytes(v))
                  => /\ ~hung
                     /\ last.out = v
                     /\ last.res = FmtUintRes(v)
                     /\ nanocbor_at_end(After)
    /\ \A v \in IntValues :
           /\ FmtIntRes(v) = Len(FmtIntBytes(v))
           /\ ReadBack("get_int64", FmtIntBytes(v))
                  => /\ ~hung
                     /\ Int64Bits(last.out) = v
                     /\ last.res = FmtIntRes(v)
                     /\ nanocbor_at_end(After)
    /\ last.op \in {"fmt_uint", "fmt_int"}
           => IF last.res > 0
              THEN last.res = Len(buf) /\ last.out.len = Len(buf)
              ELSE last.res = NANOCBOR_ERR_END /\ buf = <<>>

\* INT64_MIN was written by nanocbor_fmt_int as 3b 7f ff ff ff ff ff ff ff
\* and read back by nanocbor_get_int64
C20_Witness ==
    /\ ReadBack("get_int64", FmtIntBytes(INT64_MIN))
    /\ buf = <<59, 127, 255, 255, 255, 255, 255, 255, 255>>
    /\ Int64Bits(last.out) = INT64_MIN
    /\ last.res = 9
    /\ nanocbor_at_end(After)

(***************************************************************************)
(* The heads written by the encoder                                        *)
(***************************************************************************)
HeadOps ==
    {"fmt_uint", "fmt_int", "fmt_tag", "fmt_bstr", "fmt_tstr", "fmt_array",
     "fmt_map"}

\* the major type and the argument of the head that the formatter op is to
\* write for num
HeadMajor(op, num) ==
    CASE op = "fmt_uint" -> NANOCBOR_TYPE_UINT
      [] op = "fmt_int" -> IF Int64Negative(num) THEN NANOCBOR_TYPE_NINT
                           ELSE NANOCBOR_TYPE_UINT
      [] op = "fmt_tag" -> NANOCBOR_TYPE_TAG
      [] op = "fmt_bstr" -> NANOCBOR_TYPE_BSTR
      [] op = "fmt_tstr" -> NANOCBOR_TYPE_TSTR
      [] op = "fmt_array" -> NANOCBOR_TYPE_ARR
      [] op = "fmt_map" -> NANOCBOR_TYPE_MAP

HeadArgument(op, num) ==
    IF op = "fmt_int" /\ Int64Negative(num)
    THEN <<65535 - num[1], 65535 - num[2], 65535 - num[3], 65535 - num[4]>>
    ELSE num

\* the number of argument bytes of the smallest head that holds u
ArgumentBytes(u) ==
    IF U64Lt(u, U64(24)) THEN 0
    ELSE IF ~U64Gt(u, U64(255)) THEN 1
    ELSE IF ~U64Gt(u, U64(65535)) THEN 2
    ELSE IF u[1] = 0 /\ u[2] = 0 THEN 4
    ELSE 8

\* bytes is the smallest head of the major type with the argument u: the
\* major type in the top three bits, and the argument in the low five bits
\* or big-endian in the 1, 2, 4 or 8 bytes that follow
SmallestHead(bytes, major, u) ==
    LET n == ArgumentBytes(u) IN
    /\ Len(bytes) = 1 + n
    /\ bytes[1] \div 32 = major
    /\ bytes[1] % 32 = CASE n = 0 -> u[4] [] n = 1 -> 24 [] n = 2 -> 25
                         [] n = 4 -> 26 [] n = 8 -> 27
    /\ n > 0 => BytesToU64(SubSeq(bytes, 2, 1 + n)) = u

\* C21: the head written by nanocbor_fmt_uint, _int, _tag, _bstr, _tstr,
\* _array and _map uses the smallest argument size that holds the value
\* (0..23 in the initial byte, then 1, 2, 4 or 8 bytes), with the argument
\* in big-endian order and the major type in the top three bits.
C21_SmallestHead ==
    (last.op \in HeadOps /\ last.res > 0)
        => /\ SmallestHead(buf, HeadMajor(last.op, last.out.num),
                           HeadArgument(last.op, last.out.num))
           /\ last.res = Len(buf)

\* nanocbor_fmt_map has written 65536 as ba 00 01 00 00
C21_Witness ==
    /\ last.op = "fmt_map"
    /\ last.out.num = <<0, 0, 1, 0>>
    /\ last.res = 5
    /\ buf = <<186, 0, 1, 0, 0>>

(***************************************************************************)
(* The encoded length and the second pass                                  *)
(***************************************************************************)
\* the length that the encoder without a buffer reports
Required == nanocbor_encoded_len(encs[0].enc)

\* the encoder with the largest buffer
Ample == encs[MaxCalls * EncBufLen]

\* C22: after any sequence of formatter calls nanocbor_encoded_len is the
\* same whatever the capacity of the sink, the encoder without a buffer
\* included, and the same sequence into a buffer of exactly that length
\* succeeds in every call and fills the buffer exactly with the full encoding.
C22_SizingPass ==
    last.op # "init" /\ encs # <<>>
        => /\ \A c \in Caps : nanocbor_encoded_len(encs[c].enc) = Required
           /\ Required \in Caps
           /\ encs[Required].failed = 0
           /\ encs[Required].enc.cur = encs[Required].enc.end
           /\ Len(encs[Required].enc.out) = Required
           /\ encs[Required].enc.out = Ample.enc.out

\* nanocbor_fmt_array_indefinite and nanocbor_put_tstr("ab"): 4 bytes are
\* required, and the buffer of 4 bytes holds 9f 62 61 62
C22_Witness ==
    /\ last.op = "put_tstr"
    /\ encs # <<>>
    /\ encs[0].calls = 2
    /\ encs[0].enc.out = <<>>
    /\ Required = 4
    /\ encs[4].enc.out = <<159, 98, 97, 98>>
    /\ encs[4].enc.cur = encs[4].enc.end

(***************************************************************************)
(* The sink: fits before append, and the bounds of the memory buffer       *)
(***************************************************************************)
\* C23: in every formatter call the sink's append is invoked only after
\* fits has returned true, in the same call, for at least the number of
\* bytes appended afterwards; so the memory sink keeps buf <= cur <= end and
\* never writes a byte at or beyond end.
C23_FitsBeforeAppend ==
    encs # <<>>
        => \A c \in Caps :
               /\ encs[c].enc.granted >= 0
               /\ encs[c].enc.cur >= 0
               /\ encs[c].enc.cur <= encs[c].enc.end
               /\ Len(encs[c].enc.out) = encs[c].enc.cur
               /\ encs[c].enc.end = c

\* a buffer of 3 bytes has refused 0.1 as a double of 9 bytes and then
\* taken the two bytes of the string "a" behind it
C23_Witness ==
    /\ encs # <<>>
    /\ last.op = "put_bstr"
    /\ encs[3].calls = 2
    /\ encs[3].failed = 1
    /\ encs[3].enc.len = 11
    /\ encs[3].enc.out = <<65, 97>>
    /\ encs[3].enc.cur = 2

(***************************************************************************)
(* nanocbor_put_bstr, nanocbor_put_tstr and nanocbor_put_tstrn             *)
(***************************************************************************)
PutOps == {"put_bstr", "put_tstr", "put_tstrn"}

\* the string item of the call op for a string of fewer than 24 bytes
StringItem(op, str) ==
    << (IF op = "put_bstr" THEN NANOCBOR_TYPE_BSTR ELSE NANOCBOR_TYPE_TSTR) * 32
       + Len(str) >> \o str

\* C24: the three functions return NANOCBOR_OK only if the complete string
\* item, head and payload, was handed to the sink, and a negative error
\* whenever the head or the payload did not fit, for every length of the
\* string, zero included.
C24_PutString ==
    (encs # <<>> /\ last.op \in PutOps)
        => \A c \in Caps :
               /\ encs[c].res = NANOCBOR_OK
                      => encs[c].enc.out
                             = encs[c].before.out \o StringItem(last.op, last.out.str)
               /\ encs[c].before.end - encs[c].before.cur
                      < Len(StringItem(last.op, last.out.str))
                      => encs[c].res < 0

\* the same for the strings that are not empty
C24_NonEmpty ==
    (encs # <<>> /\ last.op \in PutOps /\ last.out.str # <<>>)
        => \A c \in Caps :
               /\ encs[c].res = NANOCBOR_OK
                      => encs[c].enc.out
                             = encs[c].before.out \o StringItem(last.op, last.out.str)
               /\ encs[c].before.end - encs[c].before.cur
                      < Len(StringItem(last.op, last.out.str))
                      => encs[c].res < 0

(***************************************************************************)
(* nanocbor_fmt_decimal_frac                                               *)
(***************************************************************************)
\* the bytes of the decimal fraction d: tag 4, the head of an array of 2,
\* e and m
DecimalFracItem(d) ==
    <<NANOCBOR_TYPE_TAG * 32 + NANOCBOR_TAG_DEC_FRAC, NANOCBOR_TYPE_ARR * 32 + 2>>
        \o nanocbor_fmt_int(nanocbor_encoder_init(EncBufLen), d.e).enc.out
        \o nanocbor_fmt_int(nanocbor_encoder_init(EncBufLen), d.m).enc.out

\* C25: nanocbor_fmt_decimal_frac(e, m) returns the number of bytes of the
\* item (tag 4, array head of 2, e, m) when all four parts fit the sink, and
\* a negative error whenever one of the parts does not fit; never zero or a
\* positive value after a part was rejected.
C25_DecimalFrac ==
    (encs # <<>> /\ last.op = "fmt_decimal_frac")
        => \A c \in Caps :
               IF encs[c].before.end - encs[c].before.cur
                      >= Len(DecimalFracItem(last.out))
               THEN /\ encs[c].res = Len(DecimalFracItem(last.out))
                    /\ encs[c].enc.out
                           = encs[c].before.out \o DecimalFracItem(last.out)
               ELSE encs[c].res < 0

\* the result when all four parts fit
C25_AllPartsFit ==
    (encs # <<>> /\ last.op = "fmt_decimal_frac")
        => \A c \in Caps :
               encs[c].before.end - encs[c].before.cur
                   >= Len(DecimalFracItem(last.out))
                   => /\ encs[c].res = Len(DecimalFracItem(last.out))
                      /\ encs[c].enc.out
                             = encs[c].before.out \o DecimalFracItem(last.out)

(***************************************************************************)
(* Floats written by the encoder and read back                             *)
(***************************************************************************)
FmtFloatBytes(v) == nanocbor_fmt_float(nanocbor_encoder_init(EncBufLen), v).enc.out

FmtDoubleBytes(v) == nanocbor_fmt_double(nanocbor_encoder_init(EncBufLen), v).enc.out

\* the double with sign s, biased exponent e and a fraction whose upper 23
\* bits are m
DoubleBits(s, e, m) ==
    <<s * 32768 + e * 16 + (m \div 524288), (m \div 8) % 65536, (m % 8) * 8192, 0>>

\* *value = tmp in nanocbor_get_double: the conversion of a float to double
SingleToDouble(b) ==
    LET s == b[3] \div 32768
        e == (b[3] \div 128) % 256
        m == (b[3] % 128) * 65536 + b[4]
    IN  IF e = FLOAT_EXP_IS_NAN THEN DoubleBits(s, DOUBLE_EXP_IS_NAN, m)
        ELSE IF e > 0
        THEN DoubleBits(s, e + DOUBLE_EXP_OFFSET - FLOAT_EXP_OFFSET, m)
        ELSE IF m = 0 THEN DoubleBits(s, 0, 0)
        ELSE LET k == HighBit(m) IN
             DoubleBits(s, k + 874, Shl(m - Shl(1, k), 23 - k))

\* the value stored by nanocbor_get_double
DoubleOut(out) ==
    IF out.kind = "single" THEN SingleToDouble(out.bits) ELSE out.bits

SingleIsNaN(b) ==
    (b[3] \div 128) % 256 = FLOAT_EXP_IS_NAN /\ (b[3] % 128 # 0 \/ b[4] # 0)

DoubleIsNaN(b) ==
    (b[1] \div 16) % 2048 = DOUBLE_EXP_IS_NAN
        /\ (b[1] % 16 # 0 \/ b[2] # 0 \/ b[3] # 0 \/ b[4] # 0)

\* the same value: the same bits, or a NaN for a NaN
SameSingle(a, b) == a = b \/ (SingleIsNaN(a) /\ SingleIsNaN(b))

SameDouble(a, b) == a = b \/ (DoubleIsNaN(a) /\ DoubleIsNaN(b))

\* C26: nanocbor_get_double over the bytes written by nanocbor_fmt_double(x)
\* gives x for every double bit pattern x, and nanocbor_get_float after
\* nanocbor_fmt_float gives x for every single bit pattern: +-0, +-infinity
\* and NaN are decoded as +-0, +-infinity and NaN.
C26_FloatRoundTrip ==
    /\ \A v \in SingleValues :
           ReadBack("get_float", FmtFloatBytes(v))
               => /\ ~hung
                  /\ last.res = Len(FmtFloatBytes(v))
                  /\ last.out.kind = "single"
                  /\ SameSingle(last.out.bits, v)
    /\ \A v \in DoubleValues :
           ReadBack("get_double", FmtDoubleBytes(v))
               => /\ ~hung
                  /\ last.res = Len(FmtDoubleBytes(v))
                  /\ last.out.kind # "none"
                  /\ SameDouble(DoubleOut(last.out), v)

\* the values that do not round-trip are the negative zeros and the NaNs
\* whose payload has none of the upper 10 bits set
SingleZeroOrNaN(v) == v = <<0, 0, 32768, 0>> \/ SingleIsNaN(v)

DoubleZeroOrNaN(v) == v = <<32768, 0, 0, 0>> \/ DoubleIsNaN(v)

C26_OtherValues ==
    /\ \A v \in SingleValues :
           (ReadBack("get_float", FmtFloatBytes(v)) /\ ~SingleZeroOrNaN(v))
               => /\ ~hung
                  /\ last.res = Len(FmtFloatBytes(v))
                  /\ last.out = [kind |-> "single", bits |-> v]
    /\ \A v \in DoubleValues :
           (ReadBack("get_double", FmtDoubleBytes(v)) /\ ~DoubleZeroOrNaN(v))
               => /\ ~hung
                  /\ last.res = Len(FmtDoubleBytes(v))
                  /\ last.out.kind # "none"
                  /\ DoubleOut(last.out) = v

(***************************************************************************)
(* nanocbor_skip and nanocbor_get_subcbor                                  *)
(***************************************************************************)
\* C27: nanocbor_skip and nanocbor_get_subcbor return NANOCBOR_OK only if
\* the cursor was advanced past exactly one complete data item that lies
\* wholly inside the buffer (for nanocbor_get_subcbor, len is the length of
\* that item and is > 0); a container cut off by the end of the buffer, an
\* indefinite container without its break byte and a tag without content
\* give a negative error.
C27_SkipOneItem ==
    (last.op \in {"skip", "get_subcbor"} /\ ~hung)
        => /\ last.res <= NANOCBOR_OK
           /\ last.res = NANOCBOR_OK
                  => /\ Before.cur < Before.end
                     /\ After.cur = WfItemEnd(Before.cur, Before.end)
                     /\ last.op = "get_subcbor"
                            => /\ last.out.buf = Before.cur
                               /\ last.out.len = After.cur - Before.cur
                               /\ last.out.len > 0

(***************************************************************************)
(* A getter that fails                                                     *)
(***************************************************************************)
\* C28: every getter that returns a negative error, nanocbor_get_decimal_frac
\* included, leaves the caller's cursor (cur, remaining, flags, table stack)
\* as it was before the call.
C28_FailedGetter ==
    (last.op \in GetterOps \cup {"get_decimal_frac"} /\ ~hung /\ last.res < 0)
        => After = Before

\* the getters other than nanocbor_get_decimal_frac
C28_PlainGetters ==
    (last.op \in GetterOps /\ ~hung /\ last.res < 0) => After = Before

(***************************************************************************)
(* nanocbor_get_tag                                                        *)
(***************************************************************************)
\* the offset of the tag head nanocbor_get_tag is to read for the cursor c:
\* the item under the cursor, or the item it stands for when it is packed
TagAt(c) == IF OnPackedItem(c) THEN Resolved(c).pos ELSE c.cur

\* C29: after nanocbor_get_tag returned NANOCBOR_OK the cursor stands at the
\* content of the tag, so that the next getter decodes that content; in
\* packed mode this also holds when the tag was reached through a reference
\* to a shared item.
C29_TagContent ==
    (last.op = "get_tag" /\ ~hung /\ last.res = NANOCBOR_OK
     /\ (OnPackedItem(Before) => Resolved(Before).kind = "item"))
        => /\ Byte(TagAt(Before)) \div 32 = NANOCBOR_TYPE_TAG
           /\ last.out = U64ToU32(WfArg(TagAt(Before)))
           /\ After.cur = TagAt(Before) + WfHeadLen(TagAt(Before), Len(buf))

\* the tag stands under the cursor itself
C29_PlainTag ==
    (last.op = "get_tag" /\ ~hung /\ last.res = NANOCBOR_OK
     /\ ~OnPackedItem(Before))
        => /\ Byte(Before.cur) \div 32 = NANOCBOR_TYPE_TAG
           /\ last.out = U64ToU32(WfArg(Before.cur))
           /\ After = [Before EXCEPT
                          !.cur = @ + WfHeadLen(Before.cur, Before.end)]

(***************************************************************************)
(* The tables in force at a shared item                                    *)
(***************************************************************************)
\* the cursor c of a packed decoder stands on a reference simple(0..15)
OnReference(c) == FLAG_PACKED_SUPPORT \in c.flags /\ OnSimpleReference(c)

\* what _packed_handle makes of the reference under the cursor c
Followed(c) ==
    _packed_follow_reference(_advance(c, 1), U64(Byte(c.cur) - 224),
                             NANOCBOR_RECURSION_MAX - 1)

\* the item at offset p is an element of the table whose array starts at a
ElementOf(p, a) == \E n \in DOMAIN PkElems(a) : PkElems(a)[n] = p

\* the tables T[1 .. k], where table k is the one that holds the element p
ScopeOf(p, T) ==
    {SubSeq(T, 1, k) : k \in {j \in DOMAIN T : ElementOf(p, T[j])}}

\* C30: a reference that resolves to an element of active table k (tables
\* counted from the oldest) leaves exactly the tables up to and including
\* table k active for the resolved item: the tables defined later are not
\* visible to the references inside it, table k is.
C30_TableScope ==
    /\ (last.op # "init" /\ OnReference(Before)
        /\ ~Followed(Before).hang /\ Followed(Before).res = NANOCBOR_OK)
           => /\ ScopeOf(Followed(Before).it.cur, TablesOf(Before))
                     = {TablesOf(Followed(Before).it)}
              /\ (Entered
                  /\ Byte(Followed(Before).it.cur) \div 32
                         \in {NANOCBOR_TYPE_ARR, NANOCBOR_TYPE_MAP})
                     => {TablesOf(Child)}
                            = ScopeOf(Followed(Before).it.cur, TablesOf(Before))
    \* 113([[true, simple(0)], 113([[false], simple(2)])]): simple(2) is
    \* simple(0) of the outer table, where it stands for true
    /\ (/\ buf = <<216, 113, 130, 130, 245, 224, 216, 113, 130, 129, 244, 226>>
        /\ last.op = "get_bool" /\ Before.cur = 0)
           => ~hung /\ last.res = NANOCBOR_OK /\ last.out = TRUE

\* the reference simple(1) in the rump of two nested tables was followed to
\* the only element of the older table, and the newer table is gone
C30_Witness ==
    /\ buf = <<216, 113, 130, 129, 244, 216, 113, 130, 129, 245, 129, 225>>
    /\ last.op = "get_bool"
    /\ OnReference(Before)
    /\ Len(Before.tables) = 2
    /\ Followed(Before).res = NANOCBOR_OK
    /\ Followed(Before).it.cur = 4
    /\ Len(Followed(Before).it.tables) = 1
    /\ last.res = NANOCBOR_OK
    /\ last.out = FALSE

(***************************************************************************)
(* The additional information 28, 29 and 30                                *)
(***************************************************************************)
\* the cursor c stands on a head whose additional information is reserved
OnReserved(c) ==
    /\ ~nanocbor_at_end(c)
    /\ c.cur < c.end
    /\ Byte(c.cur) % 32 \in {28, 29, 30}

\* C31: on a head whose additional information is 28, 29 or 30 every getter
\* and nanocbor_skip fail with an error for invalid input that is neither
\* NANOCBOR_ERR_OVERFLOW nor NANOCBOR_ERR_INVALID_TYPE, and the cursor is
\* not advanced.
C31_ReservedInformation ==
    (last.op \in GetterOps \cup {"skip"} /\ OnReserved(Before))
        => /\ ~hung
           /\ last.res < 0
           /\ last.res \notin {NANOCBOR_ERR_OVERFLOW, NANOCBOR_ERR_INVALID_TYPE}
           /\ After = Before

\* the call fails and the cursor stays
C31_Refused ==
    (last.op \in GetterOps \cup {"skip"} /\ OnReserved(Before))
        => ~hung /\ last.res < 0 /\ After = Before

(***************************************************************************)
(* nanocbor_get_decimal_frac                                               *)
(***************************************************************************)
\* the integer item at offset p as nanocbor_get_int32 puts it out
IntAt(p) ==
    [neg |-> Byte(p) \div 32 = NANOCBOR_TYPE_NINT, mag |-> WfArg(p)]

\* the item at offset p is an integer that fits int32_t
Int32At(p) ==
    /\ Byte(p) \div 32 \in {NANOCBOR_TYPE_UINT, NANOCBOR_TYPE_NINT}
    /\ ~U64Gt(WfArg(p), INT32_MAX)

\* the item at offset p is tag 4 around an array of exactly two integers
\* that fit int32_t
DecimalFracAt(p) ==
    /\ p < Len(buf)
    /\ WfItemEnd(p, Len(buf)) > 0
    /\ Byte(p) \div 32 = NANOCBOR_TYPE_TAG
    /\ WfArg(p) = U64(NANOCBOR_TAG_DEC_FRAC)
    /\ LET a == p + WfHeadLen(p, Len(buf)) IN
       /\ Byte(a) \div 32 = NANOCBOR_TYPE_ARR
       /\ Len(PkElems(a)) = 2
       /\ \A n \in 1 .. 2 : Int32At(PkElems(a)[n])

\* C32: nanocbor_get_decimal_frac returns NANOCBOR_OK only for tag 4 around
\* an array of exactly two integers that fit int32_t; e is then the first
\* and m the second of them, and the cursor is past the whole tagged item,
\* which counts as one item of the enclosing container.
C32_DecimalFrac ==
    (last.op = "get_decimal_frac" /\ ~hung /\ last.res = NANOCBOR_OK)
        => /\ DecimalFracAt(TagAt(Before))
           /\ LET a == TagAt(Before) + WfHeadLen(TagAt(Before), Len(buf)) IN
              /\ last.out.e = IntAt(PkElems(a)[1])
              /\ last.out.m = IntAt(PkElems(a)[2])
           /\ After.cur = WfItemEnd(Before.cur, Before.end)
           /\ InDefinite(Before) => After.remaining = U64Dec(Before.remaining)
           /\ After.flags = Before.flags /\ After.tables = Before.tables

\* a decimal fraction without packed support: the whole claim
C32_TwoIntegers ==
    (/\ last.op = "get_decimal_frac" /\ ~hung /\ ~Packed
     /\ ~nanocbor_at_end(Before)
     /\ DecimalFracAt(Before.cur))
        => /\ last.res = NANOCBOR_OK
           /\ After.cur = WfItemEnd(Before.cur, Before.end)
           /\ InDefinite(Before) => After.remaining = U64Dec(Before.remaining)
           /\ After.flags = Before.flags /\ After.tables = Before.tables

\* without packed support: the item is tag 4 around an array that begins
\* with two integers that fit int32_t, which are e and m
C32_FirstTwo ==
    (last.op = "get_decimal_frac" /\ ~hung /\ last.res = NANOCBOR_OK /\ ~Packed)
        => /\ Byte(Before.cur) \div 32 = NANOCBOR_TYPE_TAG
           /\ WfArg(Before.cur) = U64(NANOCBOR_TAG_DEC_FRAC)
           /\ LET a == Before.cur + WfHeadLen(Before.cur, Before.end)
                  f == a + WfHeadLen(a, Before.end)
                  g == WfItemEnd(f, Before.end)
              IN  /\ Byte(a) \div 32 = NANOCBOR_TYPE_ARR
                  /\ Int32At(f) /\ last.out.e = IntAt(f)
                  /\ Int32At(g) /\ last.out.m = IntAt(g)

(***************************************************************************)
(* Table definitions that are not [table, rump]                            *)
(***************************************************************************)
\* the item at offset p is an array, or a reference that stands for one
\* under the tables T
ArrayAt(p, lim, T) ==
    \/ Byte(p) \div 32 = NANOCBOR_TYPE_ARR
    \/ /\ PkIndex(p, lim) >= 0
       /\ PkResolve(p, lim, T, {}).kind = "item"
       /\ Byte(PkResolve(p, lim, T, {}).pos) \div 32 = NANOCBOR_TYPE_ARR

\* the cursor c of a packed decoder stands on a well-formed item tag 113
\* whose content is not an array of exactly two elements that begins with
\* an array
MalformedTable(c) ==
    /\ FLAG_PACKED_SUPPORT \in c.flags
    /\ OnTag(c, NANOCBOR_TAG_PACKED_TABLE)
    /\ WfItemEnd(c.cur, c.end) > 0
    /\ LET a == c.cur + WfHeadLen(c.cur, c.end) IN
       \/ Byte(a) \div 32 # NANOCBOR_TYPE_ARR
       \/ Len(PkElems(a)) # 2
       \/ ~ArrayAt(PkElems(a)[1], c.end, TablesOf(c))

\* C33: in packed mode a getter applied to tag 113 whose content is not an
\* array of exactly two elements of which the first is, or stands for, an
\* array returns NANOCBOR_ERR_PACKED_FORMAT: content that is not an array
\* and arrays of 0, 1, 3 and more elements included.
C33_MalformedTable ==
    (last.op \in GetterOps /\ MalformedTable(Before))
        => ~hung /\ last.res = NANOCBOR_ERR_PACKED_FORMAT

\* the getter fails and leaves the cursor where it was
C33_Refused ==
    (last.op \in GetterOps /\ MalformedTable(Before))
        => ~hung /\ last.res < 0 /\ After = Before

(***************************************************************************)
(* Packed support on inputs without packed items                           *)
(***************************************************************************)
\* no byte of the input is a reference simple(0..15) or the head of tag 6
\* or tag 113
NoPackedItem ==
    \A p \in 0 .. Len(buf) - 1 :
        /\ Byte(p) \notin 224 .. 239
        /\ (/\ Byte(p) \div 32 = NANOCBOR_TYPE_TAG
            /\ Byte(p) % 32 <= NANOCBOR_SIZE_LONG
            /\ WfHeadLen(p, Len(buf)) > 0)
               => WfArg(p) \notin {U64(NANOCBOR_TAG_PACKED_TABLE),
                                   U64(NANOCBOR_TAG_PACKED_REF_SHARED)}

\* no byte of the input is the head of an indefinite-length array or map
NoIndefiniteHead ==
    \A p \in 0 .. Len(buf) - 1 :
        Byte(p) \notin {NANOCBOR_MASK_ARR + NANOCBOR_SIZE_INDEFINITE,
                        NANOCBOR_MASK_MAP + NANOCBOR_SIZE_INDEFINITE}

\* the cursor of nanocbor_decoder_init that is in the place of the cursor c
\* of nanocbor_decoder_init_packed
Plain(c) == [c EXCEPT !.flags = @ \ {FLAG_PACKED_SUPPORT}]

\* the call op made on the cursor c
PlainCall(op, c) ==
    CASE op = "get_uint8" -> nanocbor_get_uint8(c)
      [] op = "get_uint16" -> nanocbor_get_uint16(c)
      [] op = "get_uint32" -> nanocbor_get_uint32(c)
      [] op = "get_uint64" -> nanocbor_get_uint64(c)
      [] op = "get_int8" -> nanocbor_get_int8(c)
      [] op = "get_int16" -> nanocbor_get_int16(c)
      [] op = "get_int32" -> nanocbor_get_int32(c)
      [] op = "get_int64" -> nanocbor_get_int64(c)
      [] op = "get_tag" -> nanocbor_get_tag(c)
      [] op = "get_bstr" -> nanocbor_get_bstr(c)
      [] op = "get_tstr" -> nanocbor_get_tstr(c)
      [] op = "get_null" -> nanocbor_get_null(c)
      [] op = "get_undefined" -> nanocbor_get_undefined(c)
      [] op = "get_bool" -> nanocbor_get_bool(c)
      [] op = "get_simple" -> nanocbor_get_simple(c)
      [] op = "get_float" -> nanocbor_get_float(c)
      [] op = "get_double" -> nanocbor_get_double(c)
      [] op = "get_decimal_frac" -> nanocbor_get_decimal_frac(c)
      [] op = "get_subcbor" -> nanocbor_get_subcbor(c)
      [] op = "skip" -> NoOut(nanocbor_skip(c))
      [] op = "skip_simple" -> NoOut(nanocbor_skip_simple(c))
      [] op = "get_type" -> NoOut(nanocbor_get_type(c))

PlainOps == GetterOps \cup {"get_decimal_frac", "get_subcbor", "skip",
                            "skip_simple", "get_type"}

PlainEnter(op, c, g) ==
    IF op = "enter_map" THEN nanocbor_enter_map(c, Uninit(g))
    ELSE nanocbor_enter_array(c, Uninit(g))

\* the last call on a cursor of nanocbor_decoder_init_packed gave what the
\* same call gives on the cursor of nanocbor_decoder_init in its place, and
\* nanocbor_at_end and nanocbor_container_indefinite agree on the two
SameAsPlain ==
    /\ last.op \in PlainOps
           => \E u \in {PlainCall(last.op, Plain(Before))} :
                  /\ u.hang = hung
                  /\ ~hung => /\ u.res = last.res
                              /\ u.out = last.out
                              /\ u.it = Plain(After)
    /\ last.op \in {"enter_array", "enter_map"}
           => \E g \in Garbage :
                  \E u \in {PlainEnter(last.op, Plain(Before), g)} :
                      /\ u.hang = hung
                      /\ ~hung => /\ u.res = last.res
                                  /\ Len(stack) = Len(prev) + 1
                                         => u.it = Plain(Child)
    /\ Leaving
           => \E u \in {nanocbor_leave_container(Plain(Parent), Plain(Left))} :
                  /\ u.hang = hung
                  /\ ~hung => u.res = last.res /\ u.it = Plain(ParentAfter)
    /\ \A i \in DOMAIN stack :
           /\ nanocbor_at_end(stack[i]) = nanocbor_at_end(Plain(stack[i]))
           /\ nanocbor_container_indefinite(stack[i])
                  = nanocbor_container_indefinite(Plain(stack[i]))

\* C34: on an input without packed items (no tag 113, no tag 6, no simple
\* value 0..15) a cursor of nanocbor_decoder_init_packed behaves as a cursor
\* of nanocbor_decoder_init: every getter, enter, leave, skip and at_end
\* call gives the same return code, output and cursor, for indefinite-length
\* arrays and maps as well.
C34_PackedAsPlain == (Packed /\ NoPackedItem) => SameAsPlain

\* the same for the inputs without an indefinite-length array or map
C34_Definite == (Packed /\ NoPackedItem /\ NoIndefiniteHead) => SameAsPlain

(***************************************************************************)
(* The bytes in a buffer that is too short                                 *)
(***************************************************************************)
\* s is the beginning of t
IsPrefix(s, t) == Len(s) <= Len(t) /\ s = SubSeq(t, 1, Len(s))

\* the encoder of capacity c had refused a call before its last call
FailedBefore(c) ==
    encs[c].failed - (IF encs[c].res < 0 THEN 1 ELSE 0) > 0

\* C35: after any sequence of formatter calls on a memory-buffer encoder the
\* bytes in the buffer are a prefix of the full encoding of the sequence;
\* once a call has failed for lack of space no later call writes bytes.
C35_PrefixOfEncoding ==
    encs # <<>>
        => \A c \in Caps :
               /\ IsPrefix(encs[c].enc.out, Ample.enc.out)
               /\ FailedBefore(c) => encs[c].enc.out = encs[c].before.out

\* an encoder that has written every byte it was asked for has refused no
\* call and holds the full encoding
C35_UntilFailure ==
    encs # <<>>
        => \A c \in Caps :
               encs[c].enc.len = encs[c].enc.cur
                   => /\ encs[c].failed = 0
                      /\ encs[c].enc.out = Ample.enc.out

(***************************************************************************)
(* Integers in a longer argument than their value needs                    *)
(***************************************************************************)
\* the cursor c is on a complete integer item of a major type that op reads
OnInteger(op, c) ==
    /\ OnPlainItem(c)
    /\ Byte(c.cur) \div 32 \in DestMajors(op)
    /\ CompleteHead(c)

\* the number of bytes of the destination type of op
DestBytes(op) ==
    CASE op \in {"get_uint8", "get_int8"} -> 1
      [] op \in {"get_uint16", "get_int16"} -> 2
      [] op \in {"get_uint32", "get_int32"} -> 4
      [] op \in {"get_uint64", "get_int64"} -> 8

\* C36: the integer getters accept every well-formed encoding of a value
\* that fits the destination type, non-shortest encodings included: whether
\* a getter succeeds or returns NANOCBOR_ERR_OVERFLOW depends only on the
\* encoded value, not on the size of the encoded argument.
C36_ValueDecides ==
    (last.op \in UintGetterOps \cup IntGetterOps /\ OnInteger(last.op, Before))
        => /\ ~hung
           /\ IF U64Gt(WfArg(Before.cur), DestMax(last.op))
              THEN last.res = NANOCBOR_ERR_OVERFLOW
              ELSE /\ last.res = WfHeadLen(Before.cur, Before.end)
                   /\ last.out = EncodedValue(last.op, Before)

\* the getters refuse an argument of more bytes than the destination type
\* whatever its value, and accept a value that fits in an argument of at
\* most that many bytes
C36_ArgumentSize ==
    (last.op \in UintGetterOps \cup IntGetterOps /\ OnInteger(last.op, Before))
        => /\ ~hung
           /\ IF \/ WfHeadLen(Before.cur, Before.end) - 1 > DestBytes(last.op)
                 \/ U64Gt(WfArg(Before.cur), DestMax(last.op))
              THEN last.res = NANOCBOR_ERR_OVERFLOW
              ELSE /\ last.res = WfHeadLen(Before.cur, Before.end)
                   /\ last.out = EncodedValue(last.op, Before)

(***************************************************************************)
(* The width nanocbor_fmt_float and nanocbor_fmt_double choose             *)
(***************************************************************************)
\* the biased exponent and the 23 bits of the mantissa of the single s
SingleExp(s) == (s[3] \div 128) % 256

SingleMant(s) == (s[3] % 128) * 65536 + s[4]

\* the biased exponent and the upper 20 and lower 32 bits of the mantissa of
\* the double d
DoubleExp(d) == (d[1] \div 16) % 2048

DoubleMantHi(d) == (d[1] % 16) * 65536 + d[2]

\* the single s is +-0, +-infinity, a NaN, or has a biased exponent in
\* 113..142 and 13 low mantissa bits of zero
HalfFits(s) ==
    \/ SingleExp(s) = 0 /\ SingleMant(s) = 0
    \/ SingleExp(s) = 255
    \/ SingleExp(s) \in 113 .. 142 /\ SingleMant(s) % 8192 = 0

\* the double d is +-0, +-infinity, a NaN, or has a biased exponent in
\* 897..1150 and 29 low mantissa bits of zero
SingleFits(d) ==
    \/ DoubleExp(d) = 0 /\ DoubleMantHi(d) = 0 /\ d[3] = 0 /\ d[4] = 0
    \/ DoubleExp(d) = 2047
    \/ DoubleExp(d) \in 897 .. 1150 /\ d[3] % 8192 = 0 /\ d[4] = 0

\* the double d narrowed to a single: the sign, the exponent rebased from
\* 1023 to 127 (0 and all ones kept), and the upper 23 bits of the mantissa
Narrowed(d) ==
    SingleBits(d[1] \div 32768,
               CASE DoubleExp(d) = 0 -> 0
                 [] DoubleExp(d) = 2047 -> 255
                 [] OTHER -> (DoubleExp(d) + 127 - 1023) % 256,
               DoubleMantHi(d) * 8 + d[3] \div 8192)

\* the length and the initial byte of the item of a single or a double
FloatWidth(s) == IF HalfFits(s) THEN 3 ELSE 5

DoubleWidth(d) == IF SingleFits(d) THEN FloatWidth(Narrowed(d)) ELSE 9

FloatHead(width) ==
    NANOCBOR_MASK_FLOAT
        + CASE width = 3 -> NANOCBOR_SIZE_SHORT
            [] width = 5 -> NANOCBOR_SIZE_WORD
            [] width = 9 -> NANOCBOR_SIZE_LONG

\* C37: nanocbor_fmt_float writes a half of 3 bytes exactly when the single
\* is +-0, +-infinity, a NaN, or has a biased exponent in 113..142 with its
\* 13 low mantissa bits zero, and a single of 5 bytes otherwise;
\* nanocbor_fmt_double writes a double of 9 bytes exactly when the double is
\* none of +-0, +-infinity, NaN and has no biased exponent in 897..1150 with
\* its 29 low mantissa bits zero, and otherwise narrows to a single and
\* applies the rule of nanocbor_fmt_float.
C37_FloatWidth ==
    /\ last.op = "fmt_float"
           => /\ last.out.len = FloatWidth(last.out.num)
              /\ buf # <<>>
                     => /\ last.res = Len(buf)
                        /\ Len(buf) = FloatWidth(last.out.num)
                        /\ buf[1] = FloatHead(FloatWidth(last.out.num))
    /\ last.op = "fmt_double"
           => /\ last.out.len = DoubleWidth(last.out.num)
              /\ buf # <<>>
                     => /\ last.res = Len(buf)
                        /\ Len(buf) = DoubleWidth(last.out.num)
                        /\ buf[1] = FloatHead(DoubleWidth(last.out.num))
                        /\ DoubleWidth(last.out.num) < 9
                               => buf = FmtFloatBytes(Narrowed(last.out.num))

\* nanocbor_fmt_double has written the largest float, a double with the
\* biased exponent 1150, as the single fa 7f 7f ff ff
C37_Witness ==
    /\ last.op = "fmt_double"
    /\ last.out.num = <<18415, 65535, 57344, 0>>
    /\ last.res = 5
    /\ buf = <<250, 127, 127, 255, 255>>

(***************************************************************************)
(* The count of a definite-length map                                      *)
(***************************************************************************)
\* the cursor c is on the complete head of a definite-length map
OnDefiniteMap(c) ==
    /\ OnPlainItem(c)
    /\ Byte(c.cur) \div 32 = NANOCBOR_TYPE_MAP
    /\ CompleteHead(c)

\* the number of pairs the head at c announces
Pairs(c) == WfArg(c.cur)

\* the cursor at position k of the stack is the child of a definite-length
\* map, on which its parent still stands
MapChild(s, k) ==
    /\ k >= 2
    /\ k <= Len(s)
    /\ OnDefiniteMap(s[k - 1])
    /\ InDefinite(s[k])

\* C38: nanocbor_enter_map on a definite-length map of n pairs gives a child
\* with remaining = 2 * n; every key and every value read takes one unit, so
\* the child is at its end after exactly 2 * n items; for n > (2^64 - 1) / 2
\* the call returns NANOCBOR_ERR_OVERFLOW and the count does not wrap.
C38_MapCount ==
    /\ (last.op = "enter_map" /\ OnDefiniteMap(Before))
           => /\ ~hung
              /\ IF U64Gt(Pairs(Before), UINT64_MAX_HALF)
                 THEN /\ last.res = NANOCBOR_ERR_OVERFLOW
                      /\ stack = prev
                 ELSE /\ Entered
                      /\ Child.remaining = U64Add(Pairs(Before), Pairs(Before))
                      /\ Child.cur = Before.cur + WfHeadLen(Before.cur, Before.end)
                      /\ Child.end = Before.end
                      /\ InDefinite(Child)
                      /\ After = Before
    /\ (/\ last.op \in GetterOps \cup {"skip"}
        /\ MapChild(prev, Len(prev))
        /\ ~nanocbor_at_end(Before)
        /\ ~hung
        /\ last.res >= 0)
           => /\ After.remaining = U64Dec(Before.remaining)
              /\ After.cur > Before.cur
    /\ \A k \in DOMAIN stack :
           (MapChild(stack, k) /\ stack[k].cur < stack[k].end)
               => (nanocbor_at_end(stack[k]) <=> stack[k].remaining = Zero64)

\* the child of a2 01 02 61 61 03, entered with remaining = 4, has given its
\* first key and its first value for one unit each and is not at its end
C38_Witness ==
    /\ buf = <<162, 1, 2, 97, 97, 3>>
    /\ last.op = "get_uint8"
    /\ last.res = 1
    /\ Len(stack) = 2
    /\ MapChild(prev, 2)
    /\ Before.remaining = U64(3)
    /\ After.remaining = U64(2)
    /\ After.cur = 3
    /\ ~nanocbor_at_end(After)
=============================================================================
